---- MODULE Spec2Model ----
(***************************************************************************)
(* A model of robi.bot's message moderation: the forward-spam protection   *)
(* handler (handlers/conversation.py), the channel / regex filter handler  *)
(* (handlers/filters.py), the admin-only settings commands, and the        *)
(* dispatch of one update through the handler groups registered in main.py.*)
(*                                                                         *)
(* Time is counted in hours.  Texts are sequences of tokens (a word, a     *)
(* blank " " or the command marker "/").                                   *)
(***************************************************************************)
EXTENDS Integers, Sequences, FiniteSets, TLC

VARIABLES
    now,         \* datetime.now(timezone.utc), in hours
    chat_data,   \* context.chat_data of every chat
    admins,      \* the administrators the transport reports, per chat
    pc,          \* "idle" | "dispatch" | "done": where the dispatcher is
    upd,         \* the update being dispatched (a message) or NoUpdate
    grp,         \* the handler group the dispatcher is about to run
    msgDeleted,  \* has the transport deleted the update's message
    deleteReqs,  \* delete requests issued for the update's message
    events,      \* what the handlers did for this update, in order
    fsp,         \* outcome of handle_forward_spam for this update
    notices,     \* notices posted for this update, in order
    jobs,        \* job_queue.run_once calls made for this update, in order
    inv,         \* handle_forward_spam invocations running side by side
    hash_seed    \* the seed of this run's str hash

vars == <<now, chat_data, admins, pc, upd, grp, msgDeleted, deleteReqs,
          events, fsp, notices, jobs, inv, hash_seed>>

-----------------------------------------------------------------------------
(* Bounds of the model *)

MaxTime == 32        \* the clock stops advancing here
ClockStep == 8       \* hours the clock advances in one step

(* Program constants *)

FSP_WINDOW_HOURS == 24      \* timedelta(hours=24)
FSP_NOTICE_DELAY == 6       \* run_once(..., when=6)
FILTER_NOTICE_DELAY == 30   \* run_once(delete_message_job, 30)
TELEGRAM_SERVICE_ID == 777000
DEFAULT_GROUP == 0          \* add_handler's default group
ForwardSpamGroup == DEFAULT_GROUP
\* the filter registered in a group below the default one
FilterMessageGroupEarly == DEFAULT_GROUP - 1
FilterMessageGroup == 1     \* add_handler(..., group=1)

-----------------------------------------------------------------------------
(* Generic helpers *)

InSeq(x, s) == \E i \in 1..Len(s) : s[i] = x

MinOf(S) == CHOOSE x \in S : \A y \in S : x <= y

-----------------------------------------------------------------------------
(* Texts: sequences of tokens *)

IsSpace(tok) == tok = " "

\* str.lower() on one token, as re.IGNORECASE folds case
Lower(tok) == IF tok = "SPAM" THEN "spam" ELSE tok

RECURSIVE LStrip(_)
LStrip(s) == IF s # <<>> /\ IsSpace(Head(s)) THEN LStrip(Tail(s)) ELSE s

RECURSIVE RStrip(_)
RStrip(s) ==
    IF s # <<>> /\ IsSpace(s[Len(s)]) THEN RStrip(SubSeq(s, 1, Len(s) - 1)) ELSE s

\* str.strip()
Strip(s) == RStrip(LStrip(s))

StartsWithSlashNever(s) == FALSE

\* str.startswith('/')
StartsWithSlash(s) == s # <<>> /\ s[1] = "/"

\* a or b on strings: the first that is not empty
StrOr(a, b) == IF a # <<>> THEN a ELSE b

\* re.search(pattern, content, re.IGNORECASE) for a literal pattern
ReSearch(pattern, content) ==
    \E i \in 1..(Len(content) - Len(pattern) + 1) :
        \A j \in 1..Len(pattern) : Lower(content[i + j - 1]) = Lower(pattern[j])

\* re.compile(pattern) succeeds
ReCompiles(pattern) == pattern # <<"(">>

-----------------------------------------------------------------------------
(* Messages the transport delivers *)

NoChat == [id |-> 0, type |-> "", username |-> "", title |-> ""]
NoOrigin ==
    [type |-> "none", chat |-> 0, message_id |-> 0, sender_user |-> 0,
     has_date |-> FALSE, date |-> 0]
NoMedia == [kind |-> "", file_unique_id |-> 0]

\* a supergroup and the private chat of user 2
Chats == {-1001, 2}
Users == {1, 2}

\* update.effective_chat.type
ChatType(c) == IF c > 0 THEN "private" ELSE "supergroup"

BaseMessage ==
    [chat |-> -1001, from_user |-> 2, sender_chat |-> NoChat, service |-> FALSE,
     text |-> <<>>, caption |-> <<>>, bot_command |-> FALSE,
     is_automatic_forward |-> FALSE, fwd |-> FALSE,
     forward_from_chat |-> 0, forward_from_message_id |-> 0,
     forward_origin |-> NoOrigin, forward_from |-> 0, media |-> NoMedia]

ExternalChannel == [id |-> -1555, type |-> "channel", username |-> "news", title |-> "News"]

ChannelOrigin(c, m) ==
    [NoOrigin EXCEPT !.type = "channel", !.chat = c, !.message_id = m, !.has_date = TRUE]
UserOrigin(u, d) ==
    [NoOrigin EXCEPT !.type = "user", !.sender_user = u, !.has_date = TRUE, !.date = d]
HiddenOrigin == [NoOrigin EXCEPT !.type = "hidden_user", !.has_date = TRUE]

Forward(origin) == [BaseMessage EXCEPT !.fwd = TRUE, !.forward_origin = origin]

PlainMessages ==
    { [BaseMessage EXCEPT !.text = <<"hello">>],
      [BaseMessage EXCEPT !.text = <<"buy", " ", "SPAM">>],
      [BaseMessage EXCEPT !.text = <<"hello">>, !.sender_chat = ExternalChannel],
      [BaseMessage EXCEPT !.service = TRUE] }

ForwardedMessages ==
    { [Forward(ChannelOrigin(-1555, 42)) EXCEPT !.text = <<"hello">>],
      [Forward(ChannelOrigin(-1555, 42)) EXCEPT !.text = <<"buy", " ", "SPAM">>],
      [Forward(ChannelOrigin(-1555, 42)) EXCEPT !.text = <<"hello">>,
                                                !.sender_chat = ExternalChannel],
      [Forward(NoOrigin) EXCEPT !.forward_from_chat = -1555,
                                !.forward_from_message_id = 42, !.from_user = 1],
      [Forward(UserOrigin(7, 5)) EXCEPT !.text = <<" ", "hello">>],
      [Forward(HiddenOrigin) EXCEPT !.text = <<"hello">>],
      [Forward(NoOrigin) EXCEPT !.forward_from = 7],
      [Forward(NoOrigin) EXCEPT !.forward_from = TELEGRAM_SERVICE_ID, !.text = <<"hello">>],
      [Forward(ChannelOrigin(-1555, 42)) EXCEPT !.is_automatic_forward = TRUE,
                                                !.text = <<"hello">>] }

Command(name, user) ==
    [BaseMessage EXCEPT !.text = <<"/", name>>, !.bot_command = TRUE, !.from_user = user]

CommandMessages ==
    { Command(n, u) : n \in {"toggle_forward_spam", "toggle_channel_filter",
                             "enable_janitor", "disable_janitor"},
                      u \in Users }
    \cup { [Command("add_filter", 1) EXCEPT !.text = <<"/", "add_filter", " ", "spam">>] }

CommandWithArgs(name, user, args) ==
    [Command(name, user) EXCEPT !.text = <<"/", name, " ">> \o args]

\* the other admin-only commands, as a member who is no administrator sends
\* them, and the ones an administrator sends that only shrink the settings
GuardedCommandMessages ==
    { CommandWithArgs("add_filter", 2, <<"buy">>),
      CommandWithArgs("remove_filter", 2, <<"1">>),
      CommandWithArgs("remove_filter", 1, <<"1">>),
      CommandWithArgs("whitelist_channel", 2, <<"@", "news">>),
      CommandWithArgs("unwhitelist_channel", 2, <<"news">>),
      CommandWithArgs("unwhitelist_channel", 1, <<"news">>) }

\* a forwarded channel post whose text is the command /start
ForwardedCommandMessages ==
    { [Forward(ChannelOrigin(-1555, 42)) EXCEPT !.text = <<"/", "start">>,
                                                !.bot_command = TRUE] }

Messages ==
    PlainMessages \cup ForwardedMessages \cup CommandMessages
    \cup GuardedCommandMessages \cup ForwardedCommandMessages

\* the group itself as sender_chat: an anonymous administrator
GroupAsSender == [id |-> -1001, type |-> "supergroup", username |-> "", title |-> "Group"]

Photo == [kind |-> "photo", file_unique_id |-> 9]
Sticker == [kind |-> "sticker", file_unique_id |-> 8]

\* messages for the channel-origin and the regex check
ModerationPlainMessages ==
    { [BaseMessage EXCEPT !.text = <<"buy", " ", "SPAM">>],
      [BaseMessage EXCEPT !.text = <<"hello">>, !.sender_chat = ExternalChannel],
      [BaseMessage EXCEPT !.text = <<"buy", " ", "SPAM">>, !.sender_chat = ExternalChannel],
      [BaseMessage EXCEPT !.media = Sticker, !.sender_chat = ExternalChannel],
      [BaseMessage EXCEPT !.caption = <<"/", "spam">>, !.media = Photo,
                          !.sender_chat = ExternalChannel],
      [BaseMessage EXCEPT !.text = <<"hello">>, !.sender_chat = GroupAsSender],
      [BaseMessage EXCEPT !.service = TRUE, !.sender_chat = ExternalChannel] }

\* every admin-only command, from an administrator and from a plain member,
\* one of them in a private chat, and a command that changes nothing
ModerationCommandMessages ==
    { Command(n, u) : n \in {"toggle_forward_spam", "toggle_channel_filter",
                             "enable_janitor", "disable_janitor"},
                      u \in Users }
    \cup { CommandWithArgs("add_filter", u, <<"spam">>) : u \in Users }
    \cup { CommandWithArgs("add_filter", 1, <<"buy">>) }
    \cup { CommandWithArgs("remove_filter", u, <<"1">>) : u \in Users }
    \cup { CommandWithArgs("whitelist_channel", u, <<"@", "news">>) : u \in Users }
    \cup { CommandWithArgs("unwhitelist_channel", u, <<"news">>) : u \in Users }
    \cup { [Command("enable_janitor", 2) EXCEPT !.chat = 2], Command("status", 2) }

ModerationMessages == ModerationPlainMessages \cup ModerationCommandMessages

\* MessageOriginChat: a forward of an anonymous group administrator's message
ChatOrigin == [NoOrigin EXCEPT !.type = "chat", !.has_date = TRUE]

\* forwarded messages with every combination of origin metadata and content
KeyInputs ==
    { [Forward(o) EXCEPT !.forward_from_chat = lc[1], !.forward_from_message_id = lc[2],
                         !.forward_from = ff, !.text = t, !.caption = c, !.media = md,
                         !.from_user = u] :
        o \in {NoOrigin, ChannelOrigin(-1555, 42), ChannelOrigin(-1555, 43),
               ChannelOrigin(-1666, 42), UserOrigin(7, 5), UserOrigin(8, 5),
               [UserOrigin(7, 5) EXCEPT !.has_date = FALSE, !.date = 0],
               HiddenOrigin, ChatOrigin},
        lc \in {<<0, 0>>, <<-1555, 42>>, <<-1555, 0>>},
        ff \in {0, 7},
        t \in {<<>>, <<"hello">>, <<" ">>},
        c \in {<<>>, <<"buy">>},
        md \in {NoMedia, Photo, [kind |-> "document", file_unique_id |-> 9]},
        u \in Users }

\* /add_filter and /remove_filter from an administrator: patterns that are
\* words, a pattern that reads as a number, one that does not compile, no
\* argument at all; removal by index and by text
PatternMessages ==
    { CommandWithArgs("add_filter", 1, p) :
          p \in {<<"spam">>, <<"buy">>, <<"3">>, <<"(">>} }
    \cup { Command("add_filter", 1), CommandWithArgs("add_filter", 2, <<"spam">>) }
    \cup { CommandWithArgs("remove_filter", 1, a) :
               a \in {<<"1">>, <<"2">>, <<"3">>, <<"spam">>, <<"buy">>, <<"hello">>} }

\* who may change the settings of a chat: administrator 1 in the group, the
\* user in a private chat
SettingsUser(c) == IF c > 0 THEN c ELSE 1

\* the same forward, commands and text in each of the chats
ChatsMessages ==
    UNION { { [Forward(ChannelOrigin(-1555, 42)) EXCEPT !.chat = c],
              [Command("toggle_forward_spam", SettingsUser(c)) EXCEPT !.chat = c],
              [CommandWithArgs("add_filter", SettingsUser(c), <<"spam">>) EXCEPT !.chat = c],
              [CommandWithArgs("whitelist_channel", SettingsUser(c), <<"@", "news">>)
                   EXCEPT !.chat = c],
              [BaseMessage EXCEPT !.text = <<"buy", " ", "SPAM">>, !.chat = c] } :
            c \in Chats }

\* pattern lists as the persistence file can hold them: patterns stored by a
\* run whose re module still accepted them
RestoredPatternLists ==
    { << <<"(">>, <<"spam">> >>,
      << <<"spam">>, <<"(">> >>,
      << <<"(">>, <<"(">>, <<"buy">> >>,
      << <<"hello">>, <<"(">>, <<"spam">> >>,
      << <<"(">> >>,
      << <<"buy">>, <<"spam">> >> }

\* texts for the regex check, and the janitor's switch
RegexErrorMessages ==
    { [BaseMessage EXCEPT !.text = <<"buy", " ", "SPAM">>],
      [BaseMessage EXCEPT !.text = <<"hello">>],
      [BaseMessage EXCEPT !.caption = <<"SPAM">>, !.media = Photo],
      [BaseMessage EXCEPT !.text = <<"(">>],
      Command("disable_janitor", 1),
      Command("enable_janitor", 1) }

\* a forward that all three checks hold against, and messages that fewer do
FailureMessages ==
    { [Forward(ChannelOrigin(-1555, 42)) EXCEPT !.text = <<"buy", " ", "SPAM">>,
                                                !.sender_chat = ExternalChannel],
      [Forward(ChannelOrigin(-1555, 42)) EXCEPT !.text = <<"hello">>],
      Forward(ChannelOrigin(-1555, 43)),
      [BaseMessage EXCEPT !.text = <<"buy", " ", "SPAM">>],
      [BaseMessage EXCEPT !.text = <<"hello">>, !.sender_chat = ExternalChannel] }

\* privileged commands of user 2, whose standing in the group changes
PromotionMessages ==
    { Command("toggle_forward_spam", 2),
      Command("enable_janitor", 2),
      Command("disable_janitor", 2),
      CommandWithArgs("add_filter", 2, <<"spam">>),
      CommandWithArgs("remove_filter", 2, <<"spam">>) }

\* a user-origin forward with a text, and a forward of a channel post
RestartMessages ==
    { [Forward(UserOrigin(7, 5)) EXCEPT !.text = <<"hello">>],
      Forward(ChannelOrigin(-1555, 42)) }

\* a channel is named by its username, with or without the marker, or by its id
ChannelReferences == { <<"@", "news">>, <<"news">>, <<"@", "ads">>, <<"-1555">> }

\* an administrator's whitelist commands, and posts of the channel news, which
\* is -1555, with and without its username
WhitelistMessages ==
    { CommandWithArgs("whitelist_channel", 1, a) : a \in ChannelReferences }
    \cup { CommandWithArgs("unwhitelist_channel", 1, a) : a \in ChannelReferences }
    \cup { Command("whitelist_channel", 1), Command("unwhitelist_channel", 1) }
    \cup { [BaseMessage EXCEPT !.text = <<"hello">>, !.sender_chat = ExternalChannel],
           [BaseMessage EXCEPT !.text = <<"hello">>,
                               !.sender_chat = [ExternalChannel EXCEPT !.username = ""]] }

NoUpdate == [BaseMessage EXCEPT !.chat = 0, !.from_user = 0]

-----------------------------------------------------------------------------
(* The fingerprint of a forwarded message: _make_forward_key.  A key is    *)
(* the sequence of the parts the code joins with ":"; NoKey is None.       *)

NoKey == <<>>

Part(tag, val) == [tag |-> tag, val |-> val]

TokenCode(tok) ==
    CASE tok = "hello" -> 1
      [] tok = "buy"   -> 2
      [] tok = "spam"  -> 3
      [] tok = "SPAM"  -> 4
      [] tok = " "     -> 5
      [] tok = "/"     -> 6
      [] OTHER         -> 7

HashModulus == 2^13 - 1

\* the seeds the interpreter can draw for its str hash when it starts
HashSeeds == {0, 1}

\* the str hash of an interpreter that has drawn seed
RECURSIVE StrHash(_, _)
StrHash(s, seed) ==
    IF s = <<>> THEN seed
    ELSE (31 * StrHash(SubSeq(s, 1, Len(s) - 1), seed) + TokenCode(s[Len(s)])) % HashModulus

\* hash(content) of a str, in this run of the process
PyHash(s) == StrHash(s, hash_seed)

\* the prefix the code gives each media attribute
MediaTag(kind) ==
    CASE kind = "document"   -> "doc"
      [] kind = "video_note" -> "videonote"
      [] OTHER               -> kind

\* key_parts after the text and media parts are appended
ContentParts(m) ==
    LET content == Strip(StrOr(m.text, m.caption))
        textPart == IF content # <<>> THEN <<Part("text", PyHash(content))>> ELSE <<>>
        mediaPart == IF m.media.kind # ""
                     THEN <<Part(MediaTag(m.media.kind), m.media.file_unique_id)>>
                     ELSE <<>>
    IN  textPart \o mediaPart

\* the MessageOriginUser branch: the key, or NoKey when it falls through
UserOriginKey(m) ==
    LET o == m.forward_origin
        parts == <<Part("user", o.sender_user)>>
                 \o (IF o.has_date THEN <<Part("date", o.date)>> ELSE <<>>)
                 \o ContentParts(m)
    IN  IF Len(parts) >= 2 THEN parts ELSE NoKey

\* a forward_from branch that returns the bare user part too
LegacyUserKeyAlways(m) == <<Part("user", m.forward_from)>> \o ContentParts(m)

\* the old-API branch for forward_from
LegacyUserKey(m) ==
    LET parts == <<Part("user", m.forward_from)>> \o ContentParts(m)
    IN  IF Len(parts) > 1 THEN parts ELSE NoKey

LegacyOrNone(m) == IF m.forward_from # 0 THEN LegacyUserKey(m) ELSE NoKey

\* a builder that tries the forward_from rule before the origin-chat rule
MakeForwardKeyUserFirst(m) ==
    IF m.forward_from # 0 /\ LegacyUserKey(m) # NoKey
    THEN LegacyUserKey(m)
    ELSE IF m.forward_from_chat # 0 /\ m.forward_from_message_id # 0
    THEN <<Part("chat", m.forward_from_chat), Part("msg", m.forward_from_message_id)>>
    ELSE IF m.forward_origin.type = "channel"
    THEN <<Part("chat", m.forward_origin.chat), Part("msg", m.forward_origin.message_id)>>
    ELSE IF m.forward_origin.type = "user" /\ UserOriginKey(m) # NoKey
    THEN UserOriginKey(m)
    ELSE NoKey

MakeForwardKey(m) ==
    IF m.forward_from_chat # 0 /\ m.forward_from_message_id # 0
    THEN <<Part("chat", m.forward_from_chat), Part("msg", m.forward_from_message_id)>>
    ELSE IF m.forward_origin.type = "channel"
    THEN <<Part("chat", m.forward_origin.chat), Part("msg", m.forward_origin.message_id)>>
    ELSE IF m.forward_origin.type = "user" /\ UserOriginKey(m) # NoKey
    THEN UserOriginKey(m)
    ELSE LegacyOrNone(m)

-----------------------------------------------------------------------------
(* The dedup cache: a function from keys to first_seen *)

EmptyCache == [k \in {} |-> 0]

IsStaleInclusive(first_seen, t) == first_seen <= t - FSP_WINDOW_HOURS

\* first_seen < cutoff, cutoff = now - timedelta(hours=24)
IsStale(first_seen, t) == first_seen < t - FSP_WINDOW_HOURS

CleanupNothing(cache, t) == cache

\* a pass that stops after the first stale key it deletes
CleanupOneStale(cache, t) ==
    LET stale == {x \in DOMAIN cache : cache[x] < t - FSP_WINDOW_HOURS}
        first == CHOOSE x \in stale : TRUE
    IN  IF stale = {} THEN cache ELSE [k \in DOMAIN cache \ {first} |-> cache[k]]

\* _cleanup_fsp_cache, with the clock reading t
CleanupFspCache(cache, t) ==
    [k \in {x \in DOMAIN cache : ~IsStale(cache[x], t)} |-> cache[k]]

\* an insert that is lost
CachePutNothing(cache, key, t) == cache

\* cache[key] = t
CachePut(cache, key, t) ==
    [k \in DOMAIN cache \cup {key} |-> IF k = key THEN t ELSE cache[k]]

WithinWindowStrict(first_seen, t) == t - first_seen < FSP_WINDOW_HOURS

\* now - first_seen <= timedelta(hours=24)
WithinWindow(first_seen, t) == t - first_seen <= FSP_WINDOW_HOURS

RemainingIsElapsed(delta) == delta

\* a duplicate that restarts the window
DuplicateRefreshes(cache, key, t) == [cache EXCEPT ![key] = t]

\* the Duplicate branch writes nothing to the cache
DuplicateLeaves(cache, key, t) == cache

\* remaining = timedelta(hours=24) - delta, clamped at 0
Remaining(delta) ==
    IF FSP_WINDOW_HOURS - delta < 0 THEN 0 ELSE FSP_WINDOW_HOURS - delta

-----------------------------------------------------------------------------
(* The handlers main() registers, in registration order *)

H(name, kind, group) == [name |-> name, kind |-> kind, group |-> group]

BasicHandlers ==
    << H("start", "cmd", DEFAULT_GROUP), H("hello", "cmd", DEFAULT_GROUP),
       H("help", "cmd", DEFAULT_GROUP) >>

AdminHandlers ==
    << H("toggle_channel_filter", "cmd", DEFAULT_GROUP), H("stats", "cmd", DEFAULT_GROUP) >>

ConversationHandlers ==
    << H("enable_janitor", "cmd", DEFAULT_GROUP), H("disable_janitor", "cmd", DEFAULT_GROUP),
       H("status", "cmd", DEFAULT_GROUP), H("amiadmin", "cmd", DEFAULT_GROUP),
       H("botperms", "cmd", DEFAULT_GROUP), H("toggle_forward_spam", "cmd", DEFAULT_GROUP),
       H("handle_forward_spam", "msg", ForwardSpamGroup) >>

FilterHandlers ==
    << H("add_filter", "cmd", DEFAULT_GROUP), H("remove_filter", "cmd", DEFAULT_GROUP),
       H("list_filters", "cmd", DEFAULT_GROUP), H("regex_help", "cmd", DEFAULT_GROUP),
       H("whitelist_channel", "cmd", DEFAULT_GROUP),
       H("unwhitelist_channel", "cmd", DEFAULT_GROUP),
       H("list_whitelisted_channels", "cmd", DEFAULT_GROUP),
       H("filter_message", "msg", FilterMessageGroup) >>

DiagnosticHandlers ==
    << H("admin_list_groups", "cmd", DEFAULT_GROUP),
       H("admin_group_filters", "cmd", DEFAULT_GROUP),
       H("admin_stats", "cmd", DEFAULT_GROUP) >>

Handlers ==
    BasicHandlers \o AdminHandlers \o ConversationHandlers \o FilterHandlers
    \o DiagnosticHandlers

\* filters.FORWARDED & (~filters.StatusUpdate.ALL)
ForwardedFilter(m) == m.fwd /\ ~m.service

\* (filters.TEXT | filters.CAPTION) & ~filters.COMMAND
TextFilter(m) == (m.text # <<>> \/ m.caption # <<>>) /\ ~m.bot_command

\* the handler's check_update
CheckUpdate(h, m) ==
    CASE h.kind = "cmd" -> m.bot_command /\ Len(m.text) >= 2 /\ m.text[2] = h.name
      [] h.name = "handle_forward_spam" -> ForwardedFilter(m)
      [] h.name = "filter_message" -> TextFilter(m)
      [] OTHER -> FALSE

HandlerGroups == {Handlers[i].group : i \in 1..Len(Handlers)}

\* the handler that handles m in group g: the first registered one that accepts it
HandlerFor(g, m) ==
    LET idx == {i \in 1..Len(Handlers) : Handlers[i].group = g /\ CheckUpdate(Handlers[i], m)}
    IN  IF idx = {} THEN "none" ELSE Handlers[MinOf(idx)].name

-----------------------------------------------------------------------------
(* State *)

\* a chat whose settings read every flag on
DefaultChatDataFiltering ==
    [janitorEnabled |-> TRUE, channelFilterEnabled |-> TRUE,
     forwardSpamProtectionEnabled |-> TRUE, filter_patterns |-> <<>>,
     channelWhitelist |-> <<>>, fsp_cache |-> [k \in {} |-> 0]]

DefaultChatData ==
    [janitorEnabled |-> FALSE, channelFilterEnabled |-> FALSE,
     forwardSpamProtectionEnabled |-> FALSE, filter_patterns |-> <<>>,
     channelWhitelist |-> <<>>, fsp_cache |-> EmptyCache]

\* what handle_forward_spam did for the update: the branch it took, the key,
\* delta and remaining as it computed them, and whether its cleanup pass
\* evicted the key's entry
NoFsp == [outcome |-> "none", key |-> NoKey, delta |-> 0, remaining |-> 0,
          evicted |-> FALSE]

Notice(kind, delay, remaining, pattern) ==
    [kind |-> kind, delay |-> delay, remaining |-> remaining, pattern |-> pattern]

\* notification.message_id: the messages the bot posts while it handles one
\* update are numbered in the order it posts them
NoticeId(posted) == Len(posted) + 1

JobDataOfNextMessage(chat_id, message_id) ==
    [chat_id |-> chat_id, message_id |-> message_id + 1]

\* data={'chat_id': ..., 'message_id': notification.message_id}
JobData(chat_id, message_id) == [chat_id |-> chat_id, message_id |-> message_id]

\* job_queue.run_once(callback, when, data=data); requests: the deletions the
\* callback has asked the transport for once it has run
Job(callback, when, data) ==
    [callback |-> callback, when |-> when, data |-> data, ran |-> FALSE, requests |-> <<>>]

Init ==
    /\ now = 0
    /\ chat_data = [c \in Chats |-> DefaultChatData]
    /\ admins = [c \in Chats |-> {1}]
    /\ pc = "idle"
    /\ upd = NoUpdate
    /\ grp = DEFAULT_GROUP
    /\ msgDeleted = FALSE
    /\ deleteReqs = 0
    /\ events = <<>>
    /\ fsp = NoFsp
    /\ notices = <<>>
    /\ jobs = <<>>
    /\ inv = <<>>
    /\ hash_seed = 0

-----------------------------------------------------------------------------
(* The transport and the dispatcher (Application.process_update) *)

\* the clock moves on between two updates
Tick ==
    /\ pc = "idle"
    /\ now + ClockStep <= MaxTime
    /\ now' = now + ClockStep
    /\ UNCHANGED <<chat_data, admins, pc, upd, grp, msgDeleted, deleteReqs,
                   events, fsp, notices, jobs, inv, hash_seed>>

\* an update arrives; the dispatcher starts with the lowest group
Arrive(S) ==
    /\ pc = "idle"
    /\ \E m \in S : upd' = m
    /\ pc' = "dispatch"
    /\ grp' = MinOf(HandlerGroups)
    /\ UNCHANGED <<now, chat_data, admins, msgDeleted, deleteReqs, events, fsp, notices,
                   jobs, inv, hash_seed>>

Deliver == Arrive(Messages)

DeliverModeration == Arrive(ModerationMessages)

DeliverPatterns == Arrive(PatternMessages)

DeliverChats == Arrive(ChatsMessages)

DeliverWhitelist == Arrive(WhitelistMessages)

DeliverRestart == Arrive(RestartMessages)

DeliverPromotions == Arrive(PromotionMessages)

DeliverFailures == Arrive(FailureMessages)

DeliverRegexErrors == Arrive(RegexErrorMessages)

\* after the handler of group grp: the next higher group, or the end
Advance ==
    LET later == {g \in HandlerGroups : g > grp}
    IN  IF later = {} THEN pc' = "done" /\ grp' = grp
        ELSE pc' = "dispatch" /\ grp' = MinOf(later)

\* no handler of the group accepts the update
SkipGroup ==
    /\ pc = "dispatch"
    /\ HandlerFor(grp, upd) = "none"
    /\ Advance
    /\ UNCHANGED <<now, chat_data, admins, upd, msgDeleted, deleteReqs, events, fsp, notices,
                   jobs, inv, hash_seed>>

\* the update has been through every group
Finish ==
    /\ pc = "done"
    /\ pc' = "idle"
    /\ upd' = NoUpdate
    /\ grp' = DEFAULT_GROUP
    /\ msgDeleted' = FALSE
    /\ deleteReqs' = 0
    /\ events' = <<>>
    /\ fsp' = NoFsp
    /\ notices' = <<>>
    /\ jobs' = <<>>
    /\ UNCHANGED <<now, chat_data, admins, inv, hash_seed>>

\* what the except clause around a check logs when the message was deleted
\* and send_message then raised
NoticeFailure(deleted, sent) == IF deleted /\ ~sent THEN <<"notice:failed">> ELSE <<>>

\* the clock readings a second datetime.now() in the same handler can return
ClockReads(t) == {t} \cup (IF t + ClockStep <= MaxTime THEN {t + ClockStep} ELSE {})

-----------------------------------------------------------------------------
(* handle_forward_spam *)

\* one chat_data for every chat
ChatDataKeyShared(m) == -1001

\* context.chat_data is the dict of the update's effective chat
ChatDataKey(m) == m.chat

FspEnabledAlways(cd) == TRUE

\* if not context.chat_data.get("forwardSpamProtectionEnabled", False): return
FspEnabled(cd) == cd.forwardSpamProtectionEnabled

KeyIsNoneNever(key) == FALSE

\* if key is None: return
KeyIsNone(key) == key = NoKey

IsAutomaticForwardNever(m) == FALSE

\* if getattr(message, "is_automatic_forward", False): return
IsAutomaticForward(m) == m.is_automatic_forward

\* if getattr(message, "forward_from", None) and message.forward_from.id == 777000
IsServiceForward(m) == m.forward_from # 0 /\ m.forward_from = TELEGRAM_SERVICE_ID

\* the handler returns before it touches the cache
FspReturnEarly(why) ==
    /\ fsp' = [NoFsp EXCEPT !.outcome = why]
    /\ UNCHANGED <<now, chat_data, msgDeleted, deleteReqs, events, notices, jobs>>

\* from "Prepare cache in chat_data" on; t2 is the clock at "now = ..."
FspCheck(t2, del_ok, send_ok) ==
    LET c == ChatDataKey(upd)
        cache == CleanupFspCache(chat_data[c].fsp_cache, now)
        key == MakeForwardKey(upd)
        seen == key \in DOMAIN cache
        evicted == key \in DOMAIN chat_data[c].fsp_cache /\ ~seen
        delta == t2 - cache[key]
        deleted == del_ok /\ ~msgDeleted
    IN  IF KeyIsNone(key)
        THEN /\ chat_data' = [chat_data EXCEPT ![c].fsp_cache = cache]
             /\ fsp' = [NoFsp EXCEPT !.outcome = "nokey"]
             /\ UNCHANGED <<now, msgDeleted, deleteReqs, events, notices, jobs>>
        ELSE IF ~seen
        THEN /\ now' = t2
             /\ chat_data' = [chat_data EXCEPT ![c].fsp_cache = CachePut(cache, key, t2)]
             /\ fsp' = [NoFsp EXCEPT !.outcome = "New", !.key = key, !.evicted = evicted]
             /\ events' = Append(events, "fsp:cache")
             /\ UNCHANGED <<msgDeleted, deleteReqs, notices, jobs>>
        ELSE IF WithinWindow(cache[key], t2)
        THEN /\ now' = t2
             /\ chat_data' = [chat_data EXCEPT ![c].fsp_cache = DuplicateLeaves(cache, key, t2)]
             /\ fsp' = [NoFsp EXCEPT !.outcome = "Duplicate", !.key = key,
                                      !.delta = delta, !.remaining = Remaining(delta)]
             /\ events' = events \o <<"fsp:cache", "fsp:fire">>
                              \o NoticeFailure(deleted, send_ok)
             /\ deleteReqs' = deleteReqs + 1
             /\ msgDeleted' = (msgDeleted \/ deleted)
             /\ notices' = IF deleted /\ send_ok
                           THEN Append(notices, Notice("fsp", FSP_NOTICE_DELAY,
                                                       Remaining(delta), <<>>))
                           ELSE notices
             /\ jobs' = IF deleted /\ send_ok
                        THEN Append(jobs, Job("_delete_message_job", FSP_NOTICE_DELAY,
                                              JobData(c, NoticeId(notices))))
                        ELSE jobs
        ELSE /\ now' = t2
             /\ chat_data' = [chat_data EXCEPT ![c].fsp_cache = CachePut(cache, key, t2)]
             /\ fsp' = [NoFsp EXCEPT !.outcome = "Expired", !.key = key, !.delta = delta]
             /\ events' = Append(events, "fsp:cache")
             /\ UNCHANGED <<msgDeleted, deleteReqs, notices, jobs>>

handle_forward_spam ==
    /\ pc = "dispatch"
    /\ HandlerFor(grp, upd) = "handle_forward_spam"
    /\ IF ~FspEnabled(chat_data[ChatDataKey(upd)])
       THEN FspReturnEarly("disabled")
       ELSE IF IsAutomaticForward(upd)
       THEN FspReturnEarly("automatic")
       ELSE IF IsServiceForward(upd)
       THEN FspReturnEarly("service")
       ELSE \E t2 \in ClockReads(now), del_ok \in BOOLEAN, send_ok \in BOOLEAN :
                FspCheck(t2, del_ok, send_ok)
    /\ Advance
    /\ UNCHANGED <<admins, upd, inv, hash_seed>>

-----------------------------------------------------------------------------
(* filter_message *)

\* the condition of the channel filter's if
IsExternalChannelPost(m, cd) ==
    /\ cd.channelFilterEnabled
    /\ m.sender_chat # NoChat
    /\ m.sender_chat.id # m.chat
    /\ m.sender_chat.type = "channel"

\* str(channel_id) for the chat ids of the model
StrOfId(id) ==
    CASE id = -1555 -> "-1555"
      [] id = -1001 -> "-1001"
      [] OTHER      -> "0"

\* whitelisted by username or by str(id)
IsWhitelisted(sc, whitelist) ==
    \/ sc.username # "" /\ InSeq(sc.username, whitelist)
    \/ InSeq(StrOfId(sc.id), whitelist)

\* the for loop over filter_patterns from index i on; st is what the handler
\* has done so far, delOk[i] / sendOk[i] are the transport's answers to the
\* delete and the send_message of iteration i
\* a handler that ends after its delete request whatever came of it
ReachesReturnAlways(deleted, sent) == TRUE

\* the return at the end of the try block is reached when neither
\* message.delete() nor send_message() has raised
ReachesReturn(deleted, sent) == deleted /\ sent

\* an error in one pattern that ends the whole loop
OnPatternErrorAbort(i, n) == n + 1

\* except Exception inside the for loop: log, go on with the next pattern
OnPatternError(i, n) == i + 1

\* re.search(pattern, ...) raises re.error: the pattern does not compile
ReSearchRaises(pattern) == ~ReCompiles(pattern)

RECURSIVE RegexLoop(_, _, _, _, _, _, _)
RegexLoop(patterns, i, content, st, delOk, sendOk, chat) ==
    IF i > Len(patterns) THEN st
    ELSE IF ReSearchRaises(patterns[i])
    THEN RegexLoop(patterns, OnPatternError(i, Len(patterns)), content,
                   [st EXCEPT !.events = Append(@, "regex:error")], delOk, sendOk, chat)
    ELSE IF ~ReSearch(patterns[i], content)
    THEN RegexLoop(patterns, i + 1, content, st, delOk, sendOk, chat)
    ELSE LET deleted == delOk[i] /\ ~st.msgDeleted
             st1 == [st EXCEPT !.deleteReqs = @ + 1,
                               !.events = Append(@, "regex:fire"),
                               !.msgDeleted = @ \/ deleted]
         IN  IF ReachesReturn(deleted, sendOk[i])
             THEN [st1 EXCEPT !.notices =
                       Append(@, Notice("regex", FILTER_NOTICE_DELAY, 0, patterns[i])),
                              !.jobs =
                       Append(@, Job("delete_message_job", FILTER_NOTICE_DELAY,
                                     JobData(chat, NoticeId(st1.notices))))]
             ELSE RegexLoop(patterns, i + 1, content,
                            [st1 EXCEPT !.events = @ \o NoticeFailure(deleted, sendOk[i])],
                            delOk, sendOk, chat)

JanitorEnabledAlways(cd) == TRUE

\* context.chat_data.get("janitorEnabled", False)
JanitorEnabled(cd) == cd.janitorEnabled

\* from "Skip regex filtering if janitor is not enabled" on
RegexCheck(m, cd, st, delOk, sendOk) ==
    LET content == StrOr(m.text, m.caption)
        st0 == [st EXCEPT !.events = Append(@, "regex:eval")]
    IN  IF ~JanitorEnabled(cd) THEN st0
        ELSE IF cd.filter_patterns = <<>> THEN st0
        ELSE IF content = <<>> THEN st0
        ELSE IF StartsWithSlash(content) THEN st0
        ELSE RegexLoop(cd.filter_patterns, 1, content, st0, delOk, sendOk, m.chat)

\* the whole handler; ch_del / ch_send answer the channel filter's calls
FilterMessage(m, cd, st, ch_del, ch_send, delOk, sendOk) ==
    LET st0 == [st EXCEPT !.events = Append(@, "channel:eval")]
    IN  IF IsExternalChannelPost(m, cd)
        THEN IF IsWhitelisted(m.sender_chat, cd.channelWhitelist) THEN st0
             ELSE LET deleted == ch_del /\ ~st0.msgDeleted
                      st1 == [st0 EXCEPT !.deleteReqs = @ + 1,
                                         !.events = Append(@, "channel:fire"),
                                         !.msgDeleted = @ \/ deleted]
                  IN  IF ReachesReturn(deleted, ch_send)
                      THEN [st1 EXCEPT !.notices =
                                Append(@, Notice("channel", FILTER_NOTICE_DELAY, 0, <<>>)),
                                       !.jobs =
                                Append(@, Job("delete_message_job", FILTER_NOTICE_DELAY,
                                              JobData(m.chat, NoticeId(st1.notices))))]
                      ELSE RegexCheck(m, cd,
                                      [st1 EXCEPT !.events =
                                                      @ \o NoticeFailure(deleted, ch_send)],
                                      delOk, sendOk)
        ELSE RegexCheck(m, cd, st0, delOk, sendOk)

filter_message ==
    /\ pc = "dispatch"
    /\ HandlerFor(grp, upd) = "filter_message"
    /\ LET cd == chat_data[upd.chat]
           st == [msgDeleted |-> msgDeleted, deleteReqs |-> deleteReqs,
                  events |-> events, notices |-> notices, jobs |-> jobs]
           idx == 1..Len(cd.filter_patterns)
       IN  \E ch_del \in BOOLEAN, ch_send \in BOOLEAN,
              delOk \in [idx -> BOOLEAN], sendOk \in [idx -> BOOLEAN] :
               LET r == FilterMessage(upd, cd, st, ch_del, ch_send, delOk, sendOk)
               IN  /\ msgDeleted' = r.msgDeleted
                   /\ deleteReqs' = r.deleteReqs
                   /\ events' = r.events
                   /\ notices' = r.notices
                   /\ jobs' = r.jobs
    /\ Advance
    /\ UNCHANGED <<now, chat_data, admins, upd, fsp, inv, hash_seed>>

-----------------------------------------------------------------------------
(* The admin-only commands *)

\* a gate that lets the caller through when the list cannot be fetched
IsUserAdminFailOpen(user, chat, fetch_ok) ==
    ChatType(chat) = "private" \/ ~fetch_ok \/ user \in admins[chat]

\* a gate that asks for the administrator list in private chats too
IsUserAdminNoPrivateRule(user, chat, fetch_ok) == fetch_ok /\ user \in admins[chat]

\* a gate that lets everybody through
IsUserAdminEverybody(user, chat, fetch_ok) == TRUE

\* a list kept from the first fetch
FetchedAdminsOnce(chat) == {1}

\* admin_ids, from get_administrators() at this call
FetchedAdmins(chat) == admins[chat]

\* is_user_admin; fetch_ok: get_administrators did not raise
IsUserAdmin(user, chat, fetch_ok) ==
    IF ChatType(chat) = "private" THEN TRUE
    ELSE IF ~fetch_ok THEN FALSE
    ELSE user \in FetchedAdmins(chat)

\* what is_user_admin writes to the log on its way
GateLog(chat, fetch_ok) ==
    IF ChatType(chat) = "private" THEN "gate:private"
    ELSE IF ~fetch_ok THEN "gate:error"
    ELSE "gate:checked"

\* is_user_admin lets an exception reach its caller: never, its except
\* clause catches every Exception and returns False
GateRaises(chat, fetch_ok) == FALSE

\* admin_only around a command that sets chat_data to newData and answers
\* with reply
AdminOnly(name, newData, reply) ==
    /\ pc = "dispatch"
    /\ HandlerFor(grp, upd) = name
    /\ \E fetch_ok \in BOOLEAN :
         IF GateRaises(upd.chat, fetch_ok)
         THEN /\ chat_data' = chat_data
              /\ events' = events \o <<GateLog(upd.chat, fetch_ok), "cmd:error">>
         ELSE IF IsUserAdmin(upd.from_user, upd.chat, fetch_ok)
         THEN /\ chat_data' = [chat_data EXCEPT ![upd.chat] = newData]
              /\ events' = events \o <<GateLog(upd.chat, fetch_ok), "cmd:ok", reply>>
         ELSE /\ chat_data' = chat_data
              /\ events' = events \o <<GateLog(upd.chat, fetch_ok), "cmd:denied">>
    /\ Advance
    /\ UNCHANGED <<now, admins, upd, msgDeleted, deleteReqs, fsp, notices, jobs, inv, hash_seed>>

\* status = "enabled" if new_state else "disabled"
StatusReply(new_state) == IF new_state THEN "reply:enabled" ELSE "reply:disabled"

\* a toggle that starts the dedup cache afresh
ToggleForwardSpamClears(cd) ==
    [cd EXCEPT !.forwardSpamProtectionEnabled = ~@, !.fsp_cache = EmptyCache]

ForwardSpamSwitchedOn(cd) == [cd EXCEPT !.forwardSpamProtectionEnabled = TRUE]

\* new_state = not current_state, stored under forwardSpamProtectionEnabled
ToggleForwardSpamData(cd) == [cd EXCEPT !.forwardSpamProtectionEnabled = ~@]

toggle_forward_spam ==
    AdminOnly("toggle_forward_spam", ToggleForwardSpamData(chat_data[upd.chat]),
              StatusReply(ToggleForwardSpamData(chat_data[upd.chat]).forwardSpamProtectionEnabled))

\* new_state = not current_state, stored under channelFilterEnabled
ToggleChannelFilterData(cd) == [cd EXCEPT !.channelFilterEnabled = ~@]

toggle_channel_filter ==
    AdminOnly("toggle_channel_filter", ToggleChannelFilterData(chat_data[upd.chat]),
              StatusReply(ToggleChannelFilterData(chat_data[upd.chat]).channelFilterEnabled))

enable_janitor ==
    AdminOnly("enable_janitor", [chat_data[upd.chat] EXCEPT !.janitorEnabled = TRUE],
              "reply:enabled")

disable_janitor ==
    AdminOnly("disable_janitor", [chat_data[upd.chat] EXCEPT !.janitorEnabled = FALSE],
              "reply:disabled")

\* ' '.join(context.args): the text after "/name "
CommandArgs(m) == SubSeq(m.text, 4, Len(m.text))

\* an add_filter that appends whatever compiles
AddFilterDataAppendsAlways(cd, pattern) ==
    IF pattern = <<>> THEN cd
    ELSE IF ~ReCompiles(pattern) THEN cd
    ELSE [cd EXCEPT !.filter_patterns = Append(@, pattern)]

\* an add_filter that stores the pattern without compiling it
AddFilterDataUnvalidated(cd, pattern) ==
    IF pattern = <<>> THEN cd
    ELSE IF InSeq(pattern, cd.filter_patterns) THEN cd
    ELSE [cd EXCEPT !.filter_patterns = Append(@, pattern)]

AddFilterData(cd, pattern) ==
    IF pattern = <<>> THEN cd
    ELSE IF ~ReCompiles(pattern) THEN cd
    ELSE IF InSeq(pattern, cd.filter_patterns) THEN cd
    ELSE [cd EXCEPT !.filter_patterns = Append(@, pattern)]

\* the answer add_filter sends
AddFilterReply(cd, pattern) ==
    IF pattern = <<>> THEN "reply:usage"
    ELSE IF ~ReCompiles(pattern) THEN "reply:invalid"
    ELSE IF InSeq(pattern, cd.filter_patterns) THEN "reply:exists"
    ELSE "reply:added"

add_filter ==
    AdminOnly("add_filter", AddFilterData(chat_data[upd.chat], CommandArgs(upd)),
              AddFilterReply(chat_data[upd.chat], CommandArgs(upd)))

\* int(arg) does not raise ValueError
IsInt(arg) == Len(arg) = 1 /\ arg[1] \in {"0", "1", "2", "3"}

\* int(arg)
IntOf(arg) ==
    CASE arg[1] = "1" -> 1
      [] arg[1] = "2" -> 2
      [] arg[1] = "3" -> 3
      [] OTHER        -> 0

\* list.remove(x): without the first element equal to x
RemoveFirst(seq, x) ==
    LET idx == {i \in 1..Len(seq) : seq[i] = x}
    IN  IF idx = {} THEN seq
        ELSE SubSeq(seq, 1, MinOf(idx) - 1) \o SubSeq(seq, MinOf(idx) + 1, Len(seq))

RemoveFilterData(cd, arg) ==
    IF arg = <<>> THEN cd
    ELSE IF cd.filter_patterns = <<>> THEN cd
    ELSE IF IsInt(arg)
    THEN IF 0 <= IntOf(arg) - 1 /\ IntOf(arg) - 1 < Len(cd.filter_patterns)
         THEN [cd EXCEPT !.filter_patterns = RemoveFirst(@, cd.filter_patterns[IntOf(arg)])]
         ELSE cd
    ELSE IF InSeq(arg, cd.filter_patterns)
    THEN [cd EXCEPT !.filter_patterns = RemoveFirst(@, arg)]
    ELSE cd

\* the answer remove_filter sends
RemoveFilterReply(cd, arg) ==
    IF arg = <<>> THEN "reply:usage"
    ELSE IF cd.filter_patterns = <<>> THEN "reply:none"
    ELSE IF IsInt(arg)
    THEN IF 0 <= IntOf(arg) - 1 /\ IntOf(arg) - 1 < Len(cd.filter_patterns)
         THEN "reply:removed"
         ELSE "reply:invalid_number"
    ELSE IF InSeq(arg, cd.filter_patterns) THEN "reply:removed"
    ELSE "reply:not_found"

remove_filter ==
    AdminOnly("remove_filter", RemoveFilterData(chat_data[upd.chat], CommandArgs(upd)),
              RemoveFilterReply(chat_data[upd.chat], CommandArgs(upd)))

\* context.args[0]: the text after "/name " up to the next whitespace
RECURSIVE UpToSpace(_)
UpToSpace(s) ==
    IF s = <<>> \/ IsSpace(Head(s)) THEN <<>> ELSE <<Head(s)>> \o UpToSpace(Tail(s))

FirstArg(m) == UpToSpace(LStrip(SubSeq(m.text, 3, Len(m.text))))

\* the characters of an identifier as one str
RECURSIVE Join(_)
Join(s) == IF s = <<>> THEN "" ELSE Head(s) \o Join(Tail(s))

\* an identifier that keeps its marker
ChannelIdentifierKeepsMarker(arg) == Join(Strip(arg))

\* context.args[0].strip() without one leading '@'
ChannelIdentifier(arg) ==
    LET a == Strip(arg)
    IN  IF a # <<>> /\ Head(a) = "@" THEN Join(Tail(a)) ELSE Join(a)

WhitelistData(cd, arg) ==
    IF arg = <<>> THEN cd
    ELSE IF InSeq(ChannelIdentifier(arg), cd.channelWhitelist) THEN cd
    ELSE [cd EXCEPT !.channelWhitelist = Append(@, ChannelIdentifier(arg))]

\* the answer whitelist_channel sends
WhitelistReply(cd, arg) ==
    IF arg = <<>> THEN "reply:usage"
    ELSE IF InSeq(ChannelIdentifier(arg), cd.channelWhitelist) THEN "reply:exists"
    ELSE "reply:added"

whitelist_channel ==
    AdminOnly("whitelist_channel", WhitelistData(chat_data[upd.chat], FirstArg(upd)),
              WhitelistReply(chat_data[upd.chat], FirstArg(upd)))

UnwhitelistData(cd, arg) ==
    IF arg = <<>> THEN cd
    ELSE IF cd.channelWhitelist = <<>> THEN cd
    ELSE IF InSeq(ChannelIdentifier(arg), cd.channelWhitelist)
    THEN [cd EXCEPT !.channelWhitelist = RemoveFirst(@, ChannelIdentifier(arg))]
    ELSE cd

\* the answer unwhitelist_channel sends
UnwhitelistReply(cd, arg) ==
    IF arg = <<>> THEN "reply:usage"
    ELSE IF cd.channelWhitelist = <<>> THEN "reply:none"
    ELSE IF InSeq(ChannelIdentifier(arg), cd.channelWhitelist) THEN "reply:removed"
    ELSE "reply:not_found"

unwhitelist_channel ==
    AdminOnly("unwhitelist_channel", UnwhitelistData(chat_data[upd.chat], FirstArg(upd)),
              UnwhitelistReply(chat_data[upd.chat], FirstArg(upd)))

\* the commands that only read the settings and reply
InfoCommands ==
    {"start", "hello", "help", "stats", "status", "amiadmin", "botperms",
     "list_filters", "regex_help", "list_whitelisted_channels",
     "admin_list_groups", "admin_group_filters", "admin_stats"}

info_command ==
    /\ pc = "dispatch"
    /\ HandlerFor(grp, upd) \in InfoCommands
    /\ events' = Append(events, "cmd:info")
    /\ Advance
    /\ UNCHANGED <<now, chat_data, admins, upd, msgDeleted, deleteReqs, fsp, notices,
                   jobs, inv, hash_seed>>

\* what a job callback asks the transport to delete
JobRequests(job) ==
    IF job.callback = "_delete_message_job"
    THEN IF job.data.chat_id # 0 /\ job.data.message_id # 0 THEN <<job.data>> ELSE <<>>
    ELSE <<job.data>>

\* the job queue runs a job of callback; the jobs of an update run before the
\* next update is taken up
RunJob(callback) ==
    /\ pc = "done"
    /\ \E i \in 1..Len(jobs) :
          /\ jobs[i].callback = callback
          /\ ~jobs[i].ran
          /\ jobs' = [jobs EXCEPT ![i].ran = TRUE, ![i].requests = JobRequests(jobs[i])]
    /\ UNCHANGED <<now, chat_data, admins, pc, upd, grp, msgDeleted, deleteReqs, events,
                   fsp, notices, inv, hash_seed>>

\* filters.delete_message_job
delete_message_job == RunJob("delete_message_job")

\* conversation._delete_message_job
fsp_delete_message_job == RunJob("_delete_message_job")

\* the platform side: a chat's administrators change between two updates
SetAdmins ==
    /\ pc = "idle"
    /\ \E S \in {{1}, {1, 2}} : admins' = [admins EXCEPT ![-1001] = S]
    /\ admins' # admins
    /\ UNCHANGED <<now, chat_data, pc, upd, grp, msgDeleted, deleteReqs, events,
                   fsp, notices, jobs, inv, hash_seed>>

-----------------------------------------------------------------------------

Next ==
    \/ Tick
    \/ Deliver
    \/ SkipGroup
    \/ Finish
    \/ handle_forward_spam
    \/ filter_message
    \/ toggle_forward_spam
    \/ toggle_channel_filter
    \/ enable_janitor
    \/ disable_janitor
    \/ add_filter
    \/ remove_filter
    \/ whitelist_channel
    \/ unwhitelist_channel
    \/ info_command
    \/ delete_message_job
    \/ fsp_delete_message_job

Spec == Init /\ [][Next]_vars

\* the channel-origin check, the regex check and the commands that configure
\* them: no forwarded message arrives and the clock stands still
NextModeration ==
    \/ DeliverModeration
    \/ SetAdmins
    \/ SkipGroup
    \/ Finish
    \/ filter_message
    \/ toggle_forward_spam
    \/ toggle_channel_filter
    \/ enable_janitor
    \/ disable_janitor
    \/ add_filter
    \/ remove_filter
    \/ whitelist_channel
    \/ unwhitelist_channel
    \/ info_command
    \/ delete_message_job

SpecModeration == Init /\ [][NextModeration]_vars

\* _make_forward_key on its own: a forwarded message is given, its key is
\* built, the next message is given
InitKey ==
    /\ now = 0
    /\ chat_data = [c \in Chats |-> DefaultChatData]
    /\ admins = [c \in Chats |-> {1}]
    /\ pc = "input"
    /\ upd \in KeyInputs
    /\ grp = DEFAULT_GROUP
    /\ msgDeleted = FALSE
    /\ deleteReqs = 0
    /\ events = <<>>
    /\ fsp = NoFsp
    /\ notices = <<>>
    /\ jobs = <<>>
    /\ inv = <<>>
    /\ hash_seed = 0

BuildKey ==
    /\ pc = "input"
    /\ pc' = "keyed"
    /\ fsp' = [NoFsp EXCEPT !.key = MakeForwardKey(upd)]
    /\ UNCHANGED <<now, chat_data, admins, upd, grp, msgDeleted, deleteReqs, events,
                   notices, jobs, inv, hash_seed>>

NextInput ==
    /\ pc = "keyed"
    /\ pc' = "input"
    /\ upd' \in KeyInputs
    /\ fsp' = NoFsp
    /\ UNCHANGED <<now, chat_data, admins, grp, msgDeleted, deleteReqs, events,
                   notices, jobs, inv, hash_seed>>

NextKey ==
    \/ BuildKey
    \/ NextInput

SpecKey == InitKey /\ [][NextKey]_vars

\* the commands that edit the pattern list
NextPatterns ==
    \/ DeliverPatterns
    \/ SkipGroup
    \/ Finish
    \/ add_filter
    \/ remove_filter

SpecPatterns == Init /\ [][NextPatterns]_vars

\* updates of two chats, one after the other in any order
NextChats ==
    \/ DeliverChats
    \/ SkipGroup
    \/ Finish
    \/ handle_forward_spam
    \/ filter_message
    \/ toggle_forward_spam
    \/ add_filter
    \/ whitelist_channel
    \/ fsp_delete_message_job

SpecChats == Init /\ [][NextChats]_vars

\* the group's settings come out of the persistence file with the janitor on
InitRegexErrors ==
    /\ now = 0
    /\ \E ps \in RestoredPatternLists :
         chat_data = [c \in Chats |->
                        IF c = -1001
                        THEN [DefaultChatData EXCEPT !.janitorEnabled = TRUE,
                                                     !.filter_patterns = ps]
                        ELSE DefaultChatData]
    /\ admins = [c \in Chats |-> {1}]
    /\ pc = "idle"
    /\ upd = NoUpdate
    /\ grp = DEFAULT_GROUP
    /\ msgDeleted = FALSE
    /\ deleteReqs = 0
    /\ events = <<>>
    /\ fsp = NoFsp
    /\ notices = <<>>
    /\ jobs = <<>>
    /\ inv = <<>>
    /\ hash_seed = 0

NextRegexErrors ==
    \/ DeliverRegexErrors
    \/ SkipGroup
    \/ Finish
    \/ filter_message
    \/ enable_janitor
    \/ disable_janitor
    \/ delete_message_job

SpecRegexErrors == InitRegexErrors /\ [][NextRegexErrors]_vars

\* the group has every check switched on and two patterns
InitFailures ==
    /\ now = 0
    /\ chat_data = [c \in Chats |->
                      IF c = -1001
                      THEN [DefaultChatData EXCEPT
                               !.janitorEnabled = TRUE,
                               !.channelFilterEnabled = TRUE,
                               !.forwardSpamProtectionEnabled = TRUE,
                               !.filter_patterns = << <<"spam">>, <<"buy">> >>]
                      ELSE DefaultChatData]
    /\ admins = [c \in Chats |-> {1}]
    /\ pc = "idle"
    /\ upd = NoUpdate
    /\ grp = DEFAULT_GROUP
    /\ msgDeleted = FALSE
    /\ deleteReqs = 0
    /\ events = <<>>
    /\ fsp = NoFsp
    /\ notices = <<>>
    /\ jobs = <<>>
    /\ inv = <<>>
    /\ hash_seed = 0

NextFailures ==
    \/ Tick
    \/ DeliverFailures
    \/ SkipGroup
    \/ Finish
    \/ handle_forward_spam
    \/ filter_message
    \/ delete_message_job
    \/ fsp_delete_message_job

SpecFailures == InitFailures /\ [][NextFailures]_vars

\* user 2 sends privileged commands while being promoted and demoted
NextPromotions ==
    \/ DeliverPromotions
    \/ SetAdmins
    \/ SkipGroup
    \/ Finish
    \/ toggle_forward_spam
    \/ enable_janitor
    \/ disable_janitor
    \/ add_filter
    \/ remove_filter

SpecPromotions == Init /\ [][NextPromotions]_vars

\* the group has the channel filter on
InitWhitelist ==
    /\ now = 0
    /\ chat_data = [c \in Chats |->
                      IF c = -1001
                      THEN [DefaultChatData EXCEPT !.channelFilterEnabled = TRUE]
                      ELSE DefaultChatData]
    /\ admins = [c \in Chats |-> {1}]
    /\ pc = "idle"
    /\ upd = NoUpdate
    /\ grp = DEFAULT_GROUP
    /\ msgDeleted = FALSE
    /\ deleteReqs = 0
    /\ events = <<>>
    /\ fsp = NoFsp
    /\ notices = <<>>
    /\ jobs = <<>>
    /\ inv = <<>>
    /\ hash_seed = 0

NextWhitelist ==
    \/ DeliverWhitelist
    \/ SkipGroup
    \/ Finish
    \/ whitelist_channel
    \/ unwhitelist_channel
    \/ filter_message
    \/ delete_message_job

SpecWhitelist == InitWhitelist /\ [][NextWhitelist]_vars

-----------------------------------------------------------------------------
(* The process is stopped and started again between two updates *)

\* the group has forward spam protection on; the interpreter has drawn a seed
InitRestart ==
    /\ now = 0
    /\ chat_data = [c \in Chats |->
                      IF c = -1001
                      THEN [DefaultChatData EXCEPT !.forwardSpamProtectionEnabled = TRUE]
                      ELSE DefaultChatData]
    /\ admins = [c \in Chats |-> {1}]
    /\ pc = "idle"
    /\ upd = NoUpdate
    /\ grp = DEFAULT_GROUP
    /\ msgDeleted = FALSE
    /\ deleteReqs = 0
    /\ events = <<>>
    /\ fsp = NoFsp
    /\ notices = <<>>
    /\ jobs = <<>>
    /\ inv = <<>>
    /\ hash_seed \in HashSeeds

\* the new process reads chat_data back from the persistence file and its
\* interpreter draws a seed of its own
Restart ==
    /\ pc = "idle"
    /\ hash_seed' \in HashSeeds
    /\ UNCHANGED <<now, chat_data, admins, pc, upd, grp, msgDeleted, deleteReqs,
                   events, fsp, notices, jobs, inv>>

NextRestart ==
    \/ DeliverRestart
    \/ Restart
    \/ SkipGroup
    \/ Finish
    \/ handle_forward_spam
    \/ filter_message
    \/ fsp_delete_message_job

SpecRestart == InitRestart /\ [][NextRestart]_vars

-----------------------------------------------------------------------------
(* Two invocations of handle_forward_spam that interleave at their awaits *)

\* the forwards the two invocations are running on
RaceMessages ==
    { [Forward(ChannelOrigin(-1555, 42)) EXCEPT !.from_user = 1],
      [Forward(ChannelOrigin(-1555, 42)) EXCEPT !.text = <<"hello">>],
      Forward(ChannelOrigin(-1555, 43)),
      Forward(HiddenOrigin) }

\* one invocation: where its coroutine stands, and what it has seen and done
NoInvocation ==
    [pc |-> "idle", message |-> NoUpdate, key |-> NoKey, outcome |-> "none",
     order |-> 0, delta |-> 0, requests |-> 0, deleted |-> FALSE, noticed |-> FALSE]

Invocations == {1, 2}

Started == {p \in Invocations : inv[p].pc # "idle"}

InitRace ==
    /\ now = 0
    /\ \E enabled \in BOOLEAN :
         chat_data = [c \in Chats |->
                        [DefaultChatData EXCEPT !.forwardSpamProtectionEnabled = enabled]]
    /\ admins = [c \in Chats |-> {1}]
    /\ pc = "idle"
    /\ upd = NoUpdate
    /\ grp = DEFAULT_GROUP
    /\ msgDeleted = FALSE
    /\ deleteReqs = 0
    /\ events = <<>>
    /\ fsp = NoFsp
    /\ notices = <<>>
    /\ jobs = <<>>
    /\ \E a \in RaceMessages, b \in RaceMessages :
         inv = << [NoInvocation EXCEPT !.message = a], [NoInvocation EXCEPT !.message = b] >>
    /\ hash_seed = 0

\* the invocation returns without an await
RaceReturn(p, why) ==
    /\ inv' = [inv EXCEPT ![p].pc = "end", ![p].outcome = why,
                          ![p].order = Cardinality(Started) + 1]
    /\ UNCHANGED <<now, chat_data>>

\* from "Prepare cache in chat_data" to the first await; t2 is the clock at "now = ..."
RaceCheck(p, t2) ==
    LET m == inv[p].message
        c == m.chat
        cache == CleanupFspCache(chat_data[c].fsp_cache, now)
        key == MakeForwardKey(m)
        nth == Cardinality(Started) + 1
    IN  IF KeyIsNone(key)
        THEN /\ chat_data' = [chat_data EXCEPT ![c].fsp_cache = cache]
             /\ inv' = [inv EXCEPT ![p].pc = "end", ![p].outcome = "nokey", ![p].order = nth]
             /\ UNCHANGED now
        ELSE IF key \notin DOMAIN cache
        THEN /\ now' = t2
             /\ chat_data' = [chat_data EXCEPT ![c].fsp_cache = CachePut(cache, key, t2)]
             /\ inv' = [inv EXCEPT ![p].pc = "await_persist", ![p].outcome = "New",
                                   ![p].key = key, ![p].order = nth]
        ELSE IF WithinWindow(cache[key], t2)
        THEN /\ now' = t2
             /\ chat_data' = [chat_data EXCEPT ![c].fsp_cache = DuplicateLeaves(cache, key, t2)]
             /\ inv' = [inv EXCEPT ![p].pc = "await_delete", ![p].outcome = "Duplicate",
                                   ![p].key = key, ![p].order = nth,
                                   ![p].delta = t2 - cache[key]]
        ELSE /\ now' = t2
             /\ chat_data' = [chat_data EXCEPT ![c].fsp_cache = CachePut(cache, key, t2)]
             /\ inv' = [inv EXCEPT ![p].pc = "await_persist", ![p].outcome = "Expired",
                                   ![p].key = key, ![p].order = nth]

\* the coroutine runs from its entry to its first await
RaceStart(p) ==
    /\ inv[p].pc = "idle"
    /\ IF ~FspEnabled(chat_data[inv[p].message.chat])
       THEN RaceReturn(p, "disabled")
       ELSE IF IsAutomaticForward(inv[p].message)
       THEN RaceReturn(p, "automatic")
       ELSE IF IsServiceForward(inv[p].message)
       THEN RaceReturn(p, "service")
       ELSE \E t2 \in ClockReads(now) : RaceCheck(p, t2)
    /\ UNCHANGED hash_seed
    /\ UNCHANGED <<admins, pc, upd, grp, msgDeleted, deleteReqs, events, fsp, notices, jobs>>

\* await context.application.update_persistence() comes back
RacePersist(p) ==
    /\ inv[p].pc = "await_persist"
    /\ inv' = [inv EXCEPT ![p].pc = "end"]
    /\ UNCHANGED hash_seed
    /\ UNCHANGED <<now, chat_data, admins, pc, upd, grp, msgDeleted, deleteReqs, events,
                   fsp, notices, jobs>>

\* await message.delete() comes back, or raises into the except clause
RaceDelete(p) ==
    /\ inv[p].pc = "await_delete"
    /\ \E del_ok \in BOOLEAN :
         inv' = [inv EXCEPT ![p].pc = IF del_ok THEN "await_send" ELSE "end",
                            ![p].requests = @ + 1,
                            ![p].deleted = del_ok]
    /\ UNCHANGED hash_seed
    /\ UNCHANGED <<now, chat_data, admins, pc, upd, grp, msgDeleted, deleteReqs, events,
                   fsp, notices, jobs>>

\* await update.effective_chat.send_message(...) comes back, or raises
RaceSend(p) ==
    /\ inv[p].pc = "await_send"
    /\ \E send_ok \in BOOLEAN :
         /\ inv' = [inv EXCEPT ![p].pc = "end", ![p].noticed = send_ok]
         /\ notices' = IF send_ok
                       THEN Append(notices, Notice("fsp", FSP_NOTICE_DELAY,
                                                   Remaining(inv[p].delta), <<>>))
                       ELSE notices
         /\ jobs' = IF send_ok
                    THEN Append(jobs, Job("_delete_message_job", FSP_NOTICE_DELAY,
                                          JobData(inv[p].message.chat, NoticeId(notices))))
                    ELSE jobs
    /\ UNCHANGED hash_seed
    /\ UNCHANGED <<now, chat_data, admins, pc, upd, grp, msgDeleted, deleteReqs, events, fsp>>

NextRace ==
    \E p \in Invocations :
        \/ RaceStart(p)
        \/ RacePersist(p)
        \/ RaceDelete(p)
        \/ RaceSend(p)

SpecRace == InitRace /\ [][NextRace]_vars

-----------------------------------------------------------------------------
(* Properties *)

EventIdx(S) == {i \in 1..Len(events) : events[i] \in S}

Range(seq) == {seq[i] : i \in 1..Len(seq)}

FilterEvents == {"channel:eval", "channel:fire", "regex:eval", "regex:fire"}
FireEvents == {"fsp:fire", "channel:fire", "regex:fire"}

\* the dedup cache of the chat the update is in
Cache == chat_data[upd.chat].fsp_cache

\* the dispatcher is about to run handle_forward_spam on the update
AtForwardSpam == pc = "dispatch" /\ HandlerFor(grp, upd) = "handle_forward_spam"

C2_AtMostOneAction ==
    /\ Cardinality(EventIdx(FireEvents)) <= 1
    /\ deleteReqs <= 1
    /\ Len(notices) <= 1

\* C3: with forwardSpamProtectionEnabled false, handle_forward_spam deletes
\* nothing (and leaves the chat's data alone), whatever is forwarded.
C3_DisabledNeverDeletes ==
    [][(AtForwardSpam /\ ~chat_data[upd.chat].forwardSpamProtectionEnabled)
         => /\ deleteReqs' = deleteReqs
            /\ msgDeleted' = msgDeleted
            /\ notices' = notices
            /\ chat_data' = chat_data
            /\ fsp'.outcome = "disabled"]_vars

\* a forward repeated inside the window passes while protection is off
C3_Witness ==
    /\ fsp.outcome = "disabled"
    /\ MakeForwardKey(upd) \in DOMAIN Cache
    /\ WithinWindow(Cache[MakeForwardKey(upd)], now)
    /\ now > Cache[MakeForwardKey(upd)]
    /\ deleteReqs = 0

\* handle_forward_spam is about to run and will reach its cache lookup:
\* protection is on, the forward is not an excluded one, and it has a key
AtDedupCheck ==
    /\ AtForwardSpam
    /\ chat_data[upd.chat].forwardSpamProtectionEnabled
    /\ ~upd.is_automatic_forward
    /\ upd.forward_from # TELEGRAM_SERVICE_ID
    /\ MakeForwardKey(upd) # NoKey

\* the step neither requests a deletion nor posts a notice
NoDeletion ==
    /\ deleteReqs' = deleteReqs
    /\ msgDeleted' = msgDeleted
    /\ notices' = notices
    /\ events' = Append(events, "fsp:cache")

\* a check of a key that is not in the cache yields New and stores the time
\* of the check
NewStoresNow ==
    (AtDedupCheck /\ MakeForwardKey(upd) \notin DOMAIN Cache)
      => /\ fsp'.outcome = "New"
         /\ MakeForwardKey(upd) \in DOMAIN chat_data'[upd.chat].fsp_cache
         /\ chat_data'[upd.chat].fsp_cache[MakeForwardKey(upd)] = now'
         /\ NoDeletion

\* a check of a key whose entry is at most 24h old yields Duplicate with
\* elapsed = the time of the check - first_seen
WithinWindowIsDuplicate ==
    (/\ AtDedupCheck
     /\ MakeForwardKey(upd) \in DOMAIN Cache
     /\ now' - Cache[MakeForwardKey(upd)] <= FSP_WINDOW_HOURS)
      => /\ fsp'.outcome = "Duplicate"
         /\ fsp'.delta = now' - Cache[MakeForwardKey(upd)]

\* no step removes or changes an entry that is at most 24h old after it
YoungEntriesStay ==
    \A c \in Chats : \A k \in DOMAIN chat_data[c].fsp_cache :
        now' - chat_data[c].fsp_cache[k] <= FSP_WINDOW_HOURS
          => /\ k \in DOMAIN chat_data'[c].fsp_cache
             /\ chat_data'[c].fsp_cache[k] = chat_data[c].fsp_cache[k]

\* C4: a check of an absent fingerprint at t1 yields New and stores
\* firstSeen = t1; the entry then stays as it is for 24h, and a check at t2
\* with t2 - t1 <= 24h (inclusive) yields Duplicate with elapsed = t2 - t1.
C4_DuplicateWithinWindow ==
    [][NewStoresNow /\ YoungEntriesStay /\ WithinWindowIsDuplicate]_vars

\* the inclusive bound: a duplicate exactly 24h after the first sighting
C4_Witness ==
    /\ fsp.outcome = "Duplicate"
    /\ fsp.delta = FSP_WINDOW_HOURS
    /\ Cache[fsp.key] = now - FSP_WINDOW_HOURS

\* C5 as stated: a check more than 24h after the first sighting finds the
\* entry present, takes the Expired (reset) branch and sets firstSeen to the
\* time of the check, without deleting.
C5_ExpiredBranchTaken ==
    [][(/\ AtDedupCheck
        /\ MakeForwardKey(upd) \in DOMAIN Cache
        /\ now' - Cache[MakeForwardKey(upd)] > FSP_WINDOW_HOURS)
         => /\ fsp'.outcome = "Expired"
            /\ chat_data'[upd.chat].fsp_cache[MakeForwardKey(upd)] = now'
            /\ NoDeletion]_vars

\* C5, amended: a check more than 24h after the first sighting sets firstSeen
\* to the time of the check and deletes nothing.  The cleanup pass before the
\* lookup has evicted the entry, so the outcome is New; it is Expired only
\* when the entry was still inside the window at the cleanup pass and is
\* outside it at the lookup.  A later check within 24h of the reset yields
\* Duplicate.
C5_StaleEntryIsReset ==
    [][/\ (/\ AtDedupCheck
           /\ MakeForwardKey(upd) \in DOMAIN Cache
           /\ now' - Cache[MakeForwardKey(upd)] > FSP_WINDOW_HOURS)
            => /\ fsp'.outcome \in {"New", "Expired"}
               /\ fsp'.outcome = "Expired"
                    <=> now - Cache[MakeForwardKey(upd)] <= FSP_WINDOW_HOURS
               /\ fsp'.outcome = "New" <=> fsp'.evicted
               /\ chat_data'[upd.chat].fsp_cache[MakeForwardKey(upd)] = now'
               /\ NoDeletion
       /\ YoungEntriesStay
       /\ WithinWindowIsDuplicate]_vars

\* the stale entry was evicted, the forward recorded as new and not deleted
C5_Witness ==
    /\ fsp.outcome = "New"
    /\ fsp.evicted
    /\ Cache[fsp.key] = now
    /\ deleteReqs = 0
    /\ ~msgDeleted

\* C6: on Duplicate with elapsed e the handler requests the deletion and the
\* notice reports remaining = 24h - e, with 0 <= remaining <= 24h; on New and
\* Expired it requests no deletion.
C6_DuplicateDeletesWithRemaining ==
    /\ fsp.outcome = "Duplicate"
         => /\ EventIdx({"fsp:fire"}) # {}
            /\ deleteReqs >= 1
            /\ fsp.remaining = FSP_WINDOW_HOURS - fsp.delta
            /\ fsp.remaining >= 0 /\ fsp.remaining <= FSP_WINDOW_HOURS
            /\ fsp.delta = now - Cache[fsp.key]
            /\ \A i \in 1..Len(notices) :
                   notices[i].kind = "fsp" => notices[i].remaining = fsp.remaining
    /\ fsp.outcome \in {"New", "Expired"}
         => /\ EventIdx({"fsp:fire"}) = {}
            /\ \A i \in 1..Len(notices) : notices[i].kind # "fsp"
    /\ (\E i \in 1..Len(notices) : notices[i].kind = "fsp")
         => fsp.outcome = "Duplicate" /\ msgDeleted

\* the second forward of a channel post, 16h after the first, is deleted and
\* the notice says 8h
C6_Witness ==
    /\ fsp.outcome = "Duplicate"
    /\ fsp.key = <<Part("chat", -1555), Part("msg", 42)>>
    /\ fsp.delta = 2 * ClockStep
    /\ msgDeleted
    /\ notices = <<Notice("fsp", FSP_NOTICE_DELAY, FSP_WINDOW_HOURS - 2 * ClockStep, <<>>)>>

\* C7: a Duplicate outcome leaves the entry of the fingerprint unchanged, so
\* first_seen stays the time of the first sighting.
C7_DuplicateKeepsEntry ==
    [][(AtForwardSpam /\ fsp'.outcome = "Duplicate")
         => /\ fsp'.key = MakeForwardKey(upd)
            /\ fsp'.key \in DOMAIN Cache
            /\ fsp'.key \in DOMAIN chat_data'[upd.chat].fsp_cache
            /\ chat_data'[upd.chat].fsp_cache[fsp'.key] = Cache[fsp'.key]]_vars

\* a duplicate some time after the first sighting; the entry is the old one
C7_Witness ==
    /\ fsp.outcome = "Duplicate"
    /\ fsp.delta > 0
    /\ Cache[fsp.key] = now - fsp.delta

\* C8: the cleanup pass of handle_forward_spam, at clock reading now, removes
\* exactly the entries with now - first_seen > 24h and keeps every other entry
\* as it is (the handler then only writes the entry of the update's own key),
\* so after the pass every entry is at most 24h old.
C8_CleanupRemovesExactlyStale ==
    [][(AtForwardSpam /\ fsp'.outcome \in {"nokey", "New", "Duplicate", "Expired"})
         => /\ \A k \in DOMAIN Cache \ {fsp'.key} :
                  IF now - Cache[k] > FSP_WINDOW_HOURS
                  THEN k \notin DOMAIN chat_data'[upd.chat].fsp_cache
                  ELSE /\ k \in DOMAIN chat_data'[upd.chat].fsp_cache
                       /\ chat_data'[upd.chat].fsp_cache[k] = Cache[k]
            /\ DOMAIN chat_data'[upd.chat].fsp_cache \subseteq DOMAIN Cache \cup {fsp'.key}
            /\ \A k \in DOMAIN chat_data'[upd.chat].fsp_cache :
                  now - chat_data'[upd.chat].fsp_cache[k] <= FSP_WINDOW_HOURS]_vars

\* the handler is about to clean a cache that holds a stale entry and an
\* entry that is exactly 24h old
C8_Witness ==
    /\ AtForwardSpam
    /\ chat_data[upd.chat].forwardSpamProtectionEnabled
    /\ \E k \in DOMAIN Cache : now - Cache[k] > FSP_WINDOW_HOURS
    /\ \E k \in DOMAIN Cache : now - Cache[k] = FSP_WINDOW_HOURS

\* C9: cleanup is idempotent: a second pass at the same clock reading leaves
\* the result of the first unchanged (whatever the cache and the reading).
C9_CleanupIdempotent ==
    \A c \in Chats : \A t \in 0..MaxTime :
        CleanupFspCache(CleanupFspCache(chat_data[c].fsp_cache, t), t)
          = CleanupFspCache(chat_data[c].fsp_cache, t)

\* a cache from which the first pass removes one entry and keeps another
C9_Witness ==
    \E c \in Chats :
        LET cache == chat_data[c].fsp_cache
            once == CleanupFspCache(cache, now)
        IN  /\ once # cache
            /\ once # EmptyCache
            /\ CleanupFspCache(once, now) = once

\* C10: when _make_forward_key returns None, handle_forward_spam requests no
\* deletion, posts no notice, and neither inserts nor resets a cache entry.
C10_NoKeyNoAction ==
    [][(AtForwardSpam /\ MakeForwardKey(upd) = NoKey)
         => /\ deleteReqs' = deleteReqs
            /\ msgDeleted' = msgDeleted
            /\ notices' = notices
            /\ events' = events
            /\ fsp'.outcome \notin {"New", "Duplicate", "Expired"}
            /\ \A k \in DOMAIN chat_data'[upd.chat].fsp_cache :
                   k \in DOMAIN Cache /\ chat_data'[upd.chat].fsp_cache[k] = Cache[k]]_vars

\* a hidden-sender forward went through the handler with protection on
C10_Witness ==
    /\ fsp.outcome = "nokey"
    /\ upd.forward_origin.type = "hidden_user"
    /\ chat_data[upd.chat].forwardSpamProtectionEnabled
    /\ Cache # EmptyCache

\* C11: a forwarded message that is an automatic forward, or whose legacy
\* origin user is the platform's relay account, is left alone by
\* handle_forward_spam: the step requests no deletion, posts no notice and
\* leaves the chat's settings and dedup cache exactly as they were, also
\* when its key is already in the cache.
C11_AutomaticForwardExcluded ==
    [][ AtForwardSpam /\ (upd.is_automatic_forward \/ upd.forward_from = TELEGRAM_SERVICE_ID)
        => /\ deleteReqs' = deleteReqs
           /\ msgDeleted' = msgDeleted
           /\ notices' = notices
           /\ events' = events
           /\ chat_data' = chat_data ]_vars

C11_Witness ==
    /\ fsp.outcome = "automatic"
    /\ upd.is_automatic_forward
    /\ chat_data[upd.chat].forwardSpamProtectionEnabled
    /\ MakeForwardKey(upd) \in DOMAIN Cache
    /\ deleteReqs = 0

\* the settings of the chat the update is in
Settings == chat_data[upd.chat]

\* the sender chat is a channel other than the chat and is not whitelisted
FromUnlistedChannel ==
    /\ upd.sender_chat # NoChat
    /\ upd.sender_chat.type = "channel"
    /\ upd.sender_chat.id # upd.chat
    /\ ~IsWhitelisted(upd.sender_chat, Settings.channelWhitelist)

\* C12 as stated: once the update has been through every handler, with
\* channelFilterEnabled every non-service, non-command message from a channel
\* that is not the chat and not whitelisted has been deleted by the
\* channel-origin check, and that check has fired only with the flag set,
\* for a sender chat other than the chat, that is not whitelisted.
C12_ChannelCheckDeletesEvery ==
    pc = "done" =>
        /\ ( Settings.channelFilterEnabled /\ ~upd.service /\ ~upd.bot_command
              /\ FromUnlistedChannel
              => "channel:fire" \in Range(events) )
        /\ ( "channel:fire" \in Range(events)
              => Settings.channelFilterEnabled /\ FromUnlistedChannel )

\* the content the regex check looks at
Content == StrOr(upd.text, upd.caption)

\* at least one configured pattern matches the content
SomePatternMatches ==
    \E i \in 1..Len(Settings.filter_patterns) : ReSearch(Settings.filter_patterns[i], Content)

\* C13 as stated: once the update has been through every handler, a message
\* with a text or a caption that is no command, on which the channel-origin
\* check has not fired, in a chat with janitorEnabled where at least one
\* pattern matches the content, has been deleted by the regex check.
C13_RegexFiresOnMatch ==
    pc = "done" /\ ~upd.service /\ Content # <<>> /\ ~StartsWithSlash(Content)
    /\ "channel:fire" \notin Range(events)
    /\ Settings.janitorEnabled /\ SomePatternMatches
    => "regex:fire" \in Range(events)

\* the first pattern in list order that matches the content
FirstMatch ==
    Settings.filter_patterns[
        MinOf({i \in 1..Len(Settings.filter_patterns) :
                   ReSearch(Settings.filter_patterns[i], Content)})]

\* C14 as stated: the pattern a regex notice names is the first pattern in
\* list order that matches the content; no later pattern is reported when an
\* earlier one matches.
C14_FirstMatchIsNamed ==
    \A i \in 1..Len(notices) :
        notices[i].kind = "regex" => notices[i].pattern = FirstMatch

\* C15: the regex check requests no deletion in a chat where janitorEnabled
\* is false or the pattern list is empty.
C15_RegexNeedsJanitorAndPatterns ==
    "regex:fire" \in Range(events)
    => Settings.janitorEnabled /\ Settings.filter_patterns # <<>>

C15_Witness ==
    /\ pc = "done"
    /\ "regex:eval" \in Range(events)
    /\ ~Settings.janitorEnabled
    /\ SomePatternMatches
    /\ deleteReqs = 0

\* the content of the update begins with the command marker
BeginsWithSlash == Content # <<>> /\ Head(Content) = "/"

\* C16 as stated: a message whose content (text or caption) starts with '/'
\* is deleted neither by the channel-origin check nor by the regex check.
C16_SlashNeverDeleted ==
    BeginsWithSlash
    => "channel:fire" \notin Range(events) /\ "regex:fire" \notin Range(events)

\* C16, amended: filter_message is never run on a command message (a text
\* that begins with a bot-command entity), and the regex check never deletes
\* a message whose content begins with '/'.  The channel-origin check has no
\* such guard: once the update has been through every handler, a message
\* with a text or a caption that is no command, '/' at its start or not,
\* from a channel that is not the chat and not whitelisted, in a chat with
\* channelFilterEnabled, has been deleted by the channel-origin check.
C16_SkipGuardIsForRegexOnly ==
    /\ upd.bot_command => Range(events) \cap FilterEvents = {}
    /\ BeginsWithSlash => "regex:fire" \notin Range(events)
    /\ pc = "done" /\ ~upd.service /\ ~upd.bot_command /\ Content # <<>>
       /\ Settings.channelFilterEnabled /\ FromUnlistedChannel
       => "channel:fire" \in Range(events)

C16_Witness ==
    /\ pc = "done"
    /\ BeginsWithSlash
    /\ "channel:fire" \in Range(events)
    /\ "regex:eval" \in Range(events)
    /\ Settings.janitorEnabled
    /\ SomePatternMatches

\* C17 as stated: with forwardSpamProtectionEnabled, once the update has
\* been through every handler, every forwarded non-service message that is
\* neither an automatic forward nor from the relay account has gone through
\* the dedup check of handle_forward_spam, also when its text is a command.
C17_EveryForwardIsChecked ==
    pc = "done" /\ upd.fwd /\ ~upd.service
    /\ ~upd.is_automatic_forward /\ upd.forward_from # TELEGRAM_SERVICE_ID
    /\ Settings.forwardSpamProtectionEnabled
    => fsp.outcome \in {"nokey", "New", "Duplicate", "Expired"}

\* the commands wrapped in admin_only that change the settings
GuardedCommands ==
    {"toggle_channel_filter", "toggle_forward_spam", "enable_janitor", "disable_janitor",
     "add_filter", "remove_filter", "whitelist_channel", "unwhitelist_channel"}

\* the dispatcher is about to run one of them on the update
AtGuardedCommand == pc = "dispatch" /\ HandlerFor(grp, upd) \in GuardedCommands

\* what the step appended to the log of the update
Appended == SubSeq(events', Len(events) + 1, Len(events'))

\* C18: in a private chat the gate lets every user through; in a group chat
\* it lets the user through exactly when the administrator list was fetched
\* and holds the user's id.
C18_AdminIffInFetchedList ==
    [][ AtGuardedCommand
        => /\ ChatType(upd.chat) = "private"
              => SubSeq(Appended, 1, 2) = <<"gate:private", "cmd:ok">>
           /\ ChatType(upd.chat) # "private"
              => ( SubSeq(Appended, 1, 2) = <<"gate:checked", "cmd:ok">>
                   <=> "gate:checked" \in Range(Appended)
                       /\ upd.from_user \in admins[upd.chat] ) ]_vars

C18_Witness ==
    /\ pc = "done"
    /\ ChatType(upd.chat) = "private"
    /\ upd.from_user \notin admins[upd.chat]
    /\ SubSeq(events, 1, 2) = <<"gate:private", "cmd:ok">>
    /\ Settings.janitorEnabled
    /\ admins[-1001] = {1, 2}

\* C19 as stated: when fetching the administrator list fails, the gate
\* returns false and reports the error to its caller, which answers with its
\* error notice; the wrapped operation is not executed and no setting changes.
C19_FetchErrorIsReported ==
    [][ AtGuardedCommand /\ "gate:error" \in Range(Appended)
        => Appended = <<"gate:error", "cmd:error">> /\ chat_data' = chat_data ]_vars

\* C19, amended: when fetching the administrator list fails, the gate writes
\* the error to the log and returns false like for a user who is no
\* administrator; the caller answers with the ordinary denial notice, the
\* wrapped operation is not executed and no setting changes.
C19_FetchErrorDenies ==
    [][ AtGuardedCommand /\ "gate:error" \in Range(Appended)
        => Appended = <<"gate:error", "cmd:denied">> /\ chat_data' = chat_data ]_vars

C19_Witness ==
    /\ pc = "done"
    /\ upd.from_user \in admins[upd.chat]
    /\ events = <<"gate:error", "cmd:denied">>
    /\ upd.text[2] = "toggle_channel_filter"
    /\ ~Settings.channelFilterEnabled

\* C20: each of the eight commands that change the settings, sent in a group
\* chat by a user who is not among the chat's administrators, answers with
\* the denial notice and leaves the flags, the pattern list, the whitelist
\* and the dedup cache of every chat unchanged.
C20_GuardedCommandsDenied ==
    [][ AtGuardedCommand /\ ChatType(upd.chat) # "private"
        /\ upd.from_user \notin admins[upd.chat]
        => /\ Appended \in {<<"gate:checked", "cmd:denied">>, <<"gate:error", "cmd:denied">>}
           /\ chat_data' = chat_data ]_vars

C20_Witness ==
    /\ pc = "done"
    /\ events = <<"gate:checked", "cmd:denied">>
    /\ upd.text[2] = "remove_filter"
    /\ upd.from_user \notin admins[upd.chat]
    /\ Settings.filter_patterns # <<>>
    /\ Cache # EmptyCache

\* the step runs command name and the gate lets it through
Granted(name) ==
    /\ pc = "dispatch"
    /\ HandlerFor(grp, upd) = name
    /\ "cmd:ok" \in Range(Appended)

\* C21: a toggle_channel_filter or toggle_forward_spam that the gate lets
\* through flips its flag and changes nothing else, so that flipping once
\* more gives back the settings before the step, whatever the other toggle
\* did in between; the answer names the value the step has set.
C21_ToggleIsInvolution ==
    [][ /\ Granted("toggle_channel_filter")
           => /\ chat_data' = [chat_data EXCEPT ![upd.chat].channelFilterEnabled = ~@]
              /\ [chat_data' EXCEPT ![upd.chat].channelFilterEnabled = ~@] = chat_data
              /\ Appended[3] = IF chat_data'[upd.chat].channelFilterEnabled
                                THEN "reply:enabled" ELSE "reply:disabled"
        /\ Granted("toggle_forward_spam")
           => /\ chat_data' = [chat_data EXCEPT ![upd.chat].forwardSpamProtectionEnabled = ~@]
              /\ [chat_data' EXCEPT ![upd.chat].forwardSpamProtectionEnabled = ~@] = chat_data
              /\ Appended[3] = IF chat_data'[upd.chat].forwardSpamProtectionEnabled
                                THEN "reply:enabled" ELSE "reply:disabled" ]_vars

\* the second toggle of the channel filter, after the other flag was toggled
C21_Witness ==
    /\ pc = "done"
    /\ events = <<"gate:checked", "cmd:ok", "reply:disabled">>
    /\ upd.text[2] = "toggle_channel_filter"
    /\ ~Settings.channelFilterEnabled
    /\ Settings.forwardSpamProtectionEnabled
    /\ Settings.filter_patterns # <<>>

\* no element occurs twice
NoDuplicates(seq) == \A i, j \in 1..Len(seq) : seq[i] = seq[j] => i = j

\* the elements of seq that are in S, in the order of seq
Restrict(seq, S) ==
    LET Keep(x) == x \in S
    IN  SelectSeq(seq, Keep)

\* C22: whatever add_filter and remove_filter do, the pattern list of every
\* chat holds no pattern twice, the patterns that stay keep the order they
\* had, a new pattern goes to the end, and an add_filter with a pattern that
\* is already in the list leaves the list as it is.
C22_PatternListUniqueOrdered ==
    [][ \A c \in Chats :
          LET old == chat_data[c].filter_patterns
              new == chat_data'[c].filter_patterns
          IN  /\ NoDuplicates(new)
              /\ Restrict(new, Range(old)) = Restrict(old, Range(new))
              /\ \A i \in 1..Len(new) : new[i] \notin Range(old) => i = Len(new)
              /\ Granted("add_filter") /\ c = upd.chat /\ CommandArgs(upd) \in Range(old)
                 => new = old ]_vars

C22_Witness ==
    /\ pc = "done"
    /\ events = <<"gate:checked", "cmd:ok", "reply:exists">>
    /\ Settings.filter_patterns = << <<"buy">>, <<"3">>, <<"spam">> >>

\* C23: an add_filter whose pattern does not compile changes no setting and
\* answers that the pattern is not valid; every pattern in a chat's list
\* compiles.
C23_InvalidPatternRejected ==
    [][ /\ \A c \in Chats : \A i \in 1..Len(chat_data'[c].filter_patterns) :
               ReCompiles(chat_data'[c].filter_patterns[i])
        /\ Granted("add_filter") /\ CommandArgs(upd) # <<>> /\ ~ReCompiles(CommandArgs(upd))
           => chat_data' = chat_data /\ Appended[3] = "reply:invalid" ]_vars

C23_Witness ==
    /\ pc = "done"
    /\ events = <<"gate:checked", "cmd:ok", "reply:invalid">>
    /\ CommandArgs(upd) = <<"(">>
    /\ Len(Settings.filter_patterns) = 3

\* seq without its k-th element
WithoutIndex(seq, k) == SubSeq(seq, 1, k - 1) \o SubSeq(seq, k + 1, Len(seq))

\* C24 as stated: a remove_filter that the gate lets through, given the exact
\* text of a stored pattern, removes that pattern and only that one; given
\* an in-range 1-based index k that is not the text of a stored pattern, it
\* removes exactly the k-th pattern.
C24_RemoveByIndexOrText ==
    [][ Granted("remove_filter")
        => LET old == chat_data[upd.chat].filter_patterns
               new == chat_data'[upd.chat].filter_patterns
               arg == CommandArgs(upd)
           IN  /\ arg \in Range(old)
                  => new = Restrict(old, Range(old) \ {arg})
               /\ arg \notin Range(old) /\ IsInt(arg)
                  /\ 1 <= IntOf(arg) /\ IntOf(arg) <= Len(old)
                  => new = WithoutIndex(old, IntOf(arg)) ]_vars

OriginPair(m) ==
    IF m.forward_from_chat # 0 /\ m.forward_from_message_id # 0
    THEN <<m.forward_from_chat, m.forward_from_message_id>>
    ELSE IF m.forward_origin.type = "channel"
    THEN <<m.forward_origin.chat, m.forward_origin.message_id>>
    ELSE <<0, 0>>

\* C26: a forward with an origin chat and an origin message id (the legacy
\* pair, or else a channel forward_origin) has the key chat:{c}:msg:{m} of
\* that pair, whatever its text, caption, media, forwarder and origin user
\* are; two such forwards have the same key exactly when their pairs are the
\* same.
C26_OriginChatKey ==
    pc = "keyed" /\ OriginPair(upd) # <<0, 0>>
    => /\ fsp.key = <<Part("chat", OriginPair(upd)[1]), Part("msg", OriginPair(upd)[2])>>
       /\ \A m \in KeyInputs :
             OriginPair(m) # <<0, 0>>
             => (MakeForwardKey(m) = fsp.key <=> OriginPair(m) = OriginPair(upd))

C26_Witness ==
    /\ pc = "keyed"
    /\ fsp.key = <<Part("chat", -1555), Part("msg", 42)>>
    /\ upd.forward_origin = ChannelOrigin(-1666, 42)
    /\ upd.forward_from = 7
    /\ upd.text = <<"hello">>
    /\ upd.media = Photo

\* the message has a text or caption that is not blank, or a media file
HasContentOrMedia(m) == Strip(StrOr(m.text, m.caption)) # <<>> \/ m.media.kind # ""

\* C27 as stated: for a forward with an origin user in forward_origin (and
\* no origin chat pair and no legacy forward_from), a key is built only when
\* the origin date is there and the message has a non-blank text or caption
\* or a media file.
C27_UserOriginNeedsDateAndContent ==
    pc = "keyed" /\ upd.forward_origin.type = "user"
    /\ OriginPair(upd) = <<0, 0>> /\ upd.forward_from = 0
    => (fsp.key # NoKey => upd.forward_origin.has_date /\ HasContentOrMedia(upd))

\* C28: a forward that has only the legacy forward_from user gets the key
\* user:{id} followed by the hash of its stripped text or caption, if not
\* blank, and by its media id, if any, and no key when it has neither; a
\* forward without origin chat pair, origin user and forward_from (a hidden
\* sender, an anonymous administrator, no metadata) gets no key.
C28_LegacyUserKeyOrNone ==
    pc = "keyed" /\ OriginPair(upd) = <<0, 0>> /\ upd.forward_origin.type # "user"
    => LET content == Strip(StrOr(upd.text, upd.caption))
           text == IF content # <<>> THEN <<Part("text", PyHash(content))>> ELSE <<>>
           media == IF upd.media.kind = "" THEN <<>>
                    ELSE IF upd.media.kind = "document"
                    THEN <<Part("doc", upd.media.file_unique_id)>>
                    ELSE <<Part(upd.media.kind, upd.media.file_unique_id)>>
       IN  /\ upd.forward_from # 0 /\ HasContentOrMedia(upd)
              => fsp.key = <<Part("user", upd.forward_from)>> \o text \o media
           /\ upd.forward_from # 0 /\ ~HasContentOrMedia(upd) => fsp.key = NoKey
           /\ upd.forward_from = 0 => fsp.key = NoKey

C28_Witness ==
    /\ pc = "keyed"
    /\ upd.forward_origin = HiddenOrigin
    /\ upd.forward_from = 7
    /\ upd.text = <<" ">>
    /\ upd.caption = <<"buy">>
    /\ fsp.key = <<Part("user", 7), Part("doc", 9)>>

\* the two invocations have both been through the dedup check with one
\* fingerprint
SameFingerprintChecked ==
    /\ Started = Invocations
    /\ inv[1].key # NoKey
    /\ inv[1].key = inv[2].key
    /\ inv[1].message.chat = inv[2].message.chat

\* C29: of two interleaved invocations on forwards with the same fingerprint in
\* one chat, the fingerprint absent at first, the one that starts first
\* observes New and the other Duplicate; the New one's message is never asked
\* to be deleted, and the Duplicate one asks for the deletion of its own
\* message before it ends
C29_CheckThenInsertAtomic ==
    SameFingerprintChecked =>
        \E p \in Invocations, q \in Invocations :
            /\ p # q
            /\ inv[p].order = 1 /\ inv[q].order = 2
            /\ inv[p].outcome = "New" /\ inv[q].outcome = "Duplicate"
            /\ inv[p].requests = 0 /\ ~inv[p].deleted
            /\ inv[q].pc \in {"await_send", "end"} => inv[q].requests = 1

\* the second invocation has had its message deleted while the first is still
\* waiting for the persistence layer
C29_Witness ==
    /\ SameFingerprintChecked
    /\ inv[2].pc = "await_persist" /\ inv[2].outcome = "New"
    /\ inv[1].pc = "await_send" /\ inv[1].outcome = "Duplicate" /\ inv[1].deleted
    /\ inv[1].message.from_user # inv[2].message.from_user


\* the chats other than the one the update in hand is in
OtherChats == Chats \ {upd.chat}

\* C30: a step of the program leaves the flags, the pattern list, the
\* whitelist and the dedup cache of every chat other than the update's own as
\* they are, and a fingerprint that is in another chat's dedup cache but not
\* in this chat's is New here
C30_ChatsIndependent ==
    [][/\ \A c \in OtherChats : chat_data'[c] = chat_data[c]
       /\ ( /\ AtForwardSpam
            /\ chat_data[upd.chat].forwardSpamProtectionEnabled
            /\ MakeForwardKey(upd) # NoKey
            /\ MakeForwardKey(upd) \notin DOMAIN chat_data[upd.chat].fsp_cache
            /\ \E c \in OtherChats : MakeForwardKey(upd) \in DOMAIN chat_data[c].fsp_cache )
          => /\ fsp'.outcome = "New"
             /\ ~msgDeleted' /\ deleteReqs' = 0]_vars

\* the forward is New in the private chat while the group's cache holds its
\* fingerprint, and the two chats' settings differ
C30_Witness ==
    /\ pc = "done" /\ upd.chat = 2 /\ fsp.outcome = "New"
    /\ fsp.key \in DOMAIN chat_data[-1001].fsp_cache
    /\ fsp.key \in DOMAIN chat_data[2].fsp_cache
    /\ chat_data[-1001].filter_patterns = << <<"spam">> >>
    /\ chat_data[2].filter_patterns = <<>>
    /\ chat_data[-1001].channelWhitelist # chat_data[2].channelWhitelist


\* the settings of a chat nobody has configured
Unconfigured(cd) ==
    /\ ~cd.janitorEnabled /\ ~cd.channelFilterEnabled /\ ~cd.forwardSpamProtectionEnabled
    /\ cd.filter_patterns = <<>>
    /\ cd.channelWhitelist = <<>>

\* C31: every chat starts with the three flags off and with an empty pattern
\* list and whitelist; only a command that the gate lets through, sent in that
\* chat, takes a chat out of these settings; and while the chat of the update
\* in hand has them, no step requests a deletion, deletes the message, posts
\* a notice or writes to the chat's dedup cache
C31_UnconfiguredChatDeletesNothing ==
    /\ \A c \in Chats : Unconfigured(chat_data[c])
    /\ [][\A c \in Chats :
             Unconfigured(chat_data[c]) /\ ~Unconfigured(chat_data'[c])
             => upd.chat = c /\ "cmd:ok" \in Range(Appended)]_vars
    /\ [][upd.chat \in Chats /\ Unconfigured(chat_data[upd.chat])
          => /\ deleteReqs' <= deleteReqs
             /\ msgDeleted' => msgDeleted
             /\ Len(notices') <= Len(notices)
             /\ jobs' \in {jobs, <<>>}
             /\ chat_data'[upd.chat].fsp_cache = chat_data[upd.chat].fsp_cache]_vars

\* a forward that an external channel sends has been through both handlers of
\* a chat with the settings it started with, later than the start
C31_Witness ==
    /\ pc = "done" /\ now > 0
    /\ upd.fwd /\ upd.sender_chat = ExternalChannel
    /\ Unconfigured(chat_data[upd.chat])
    /\ fsp.outcome = "disabled"
    /\ events = <<"channel:eval", "regex:eval">>
    /\ deleteReqs = 0 /\ ~msgDeleted /\ notices = <<>>

\* the dispatcher is about to run filter_message on the update
AtFilterMessage == pc = "dispatch" /\ HandlerFor(grp, upd) = "filter_message"

\* the patterns of the chat that compile and match the content
ValidMatches ==
    {i \in 1..Len(Settings.filter_patterns) :
        /\ Settings.filter_patterns[i] # <<"(">>
        /\ ReSearch(Settings.filter_patterns[i], Content)}

\* the patterns ahead of index i whose evaluation raises
BrokenBefore(i) == {j \in 1..(i - 1) : Settings.filter_patterns[j] = <<"(">>}

\* C32: when the regex check runs over a list that holds patterns whose
\* evaluation raises, each such pattern ahead of the first pattern that
\* matches is logged and passed over, and that matching pattern fires: the
\* deletion is requested for it
C32_BrokenPatternIsSkipped ==
    [][( /\ AtFilterMessage
         /\ Settings.janitorEnabled
         /\ Content # <<>> /\ ~BeginsWithSlash
         /\ ValidMatches # {} )
       => LET first == MinOf(ValidMatches)
              errors == {k \in 1..Len(Appended) : Appended[k] = "regex:error"}
              fires == {k \in 1..Len(Appended) : Appended[k] = "regex:fire"}
          IN  /\ fires # {}
              /\ Cardinality({k \in errors : k < MinOf(fires)})
                     = Cardinality(BrokenBefore(first))
              /\ deleteReqs' >= deleteReqs + 1]_vars

\* a list of three patterns, the second broken, the third matching: the
\* message is gone and the notice names the third
C32_Witness ==
    /\ pc = "done"
    /\ Settings.filter_patterns = << <<"hello">>, <<"(">>, <<"spam">> >>
    /\ upd.text = <<"buy", " ", "SPAM">>
    /\ events = <<"channel:eval", "regex:eval", "regex:error", "regex:fire">>
    /\ msgDeleted /\ Len(notices) = 1 /\ notices[1].pattern = <<"spam">>

\* how often the step wrote e to the log of the update
Count(e) == Cardinality({k \in 1..Len(Appended) : Appended[k] = e})

\* the patterns of the chat that match the content
Matching ==
    {i \in 1..Len(Settings.filter_patterns) : ReSearch(Settings.filter_patterns[i], Content)}

\* C33: a step in which every deletion the handler asks for fails, the
\* message still there after it, leaves the flags, the pattern list and the
\* whitelist of every chat as they are, and the dedup cache with the entries
\* it had, less the stale ones; after handle_forward_spam the dispatcher goes
\* on to the next group; in filter_message the regex check is evaluated after
\* the channel-origin check, and the loop asks for the deletion once for every
\* pattern that matches
C33_FailedDeleteIsNoOp ==
    [][(deleteReqs' > deleteReqs /\ ~msgDeleted')
       => /\ \A c \in Chats :
                /\ [chat_data'[c] EXCEPT !.fsp_cache = <<>>]
                       = [chat_data[c] EXCEPT !.fsp_cache = <<>>]
                /\ \A k \in DOMAIN chat_data'[c].fsp_cache :
                       /\ k \in DOMAIN chat_data[c].fsp_cache
                       /\ chat_data'[c].fsp_cache[k] = chat_data[c].fsp_cache[k]
                /\ \A k \in DOMAIN chat_data[c].fsp_cache :
                       now - chat_data[c].fsp_cache[k] <= FSP_WINDOW_HOURS
                       => k \in DOMAIN chat_data'[c].fsp_cache
          /\ notices' = notices /\ jobs' = jobs
          /\ AtForwardSpam
             => /\ pc' = "dispatch" /\ grp' > grp
                /\ (upd.text # <<>> => HandlerFor(grp', upd) = "filter_message")
          /\ AtFilterMessage
             => /\ Count("channel:eval") = 1 /\ Count("regex:eval") = 1
                /\ Count("channel:fire")
                       = (IF Settings.channelFilterEnabled /\ FromUnlistedChannel
                          THEN 1 ELSE 0)
                /\ Count("regex:fire")
                       = (IF Settings.janitorEnabled /\ ~BeginsWithSlash
                          THEN Cardinality(Matching) ELSE 0)]_vars

\* the second forward of a channel post by an external channel, its text
\* matching both patterns: four deletions asked for, all failed, every check
\* evaluated, the message still there
C33_Witness ==
    /\ pc = "done" /\ ~msgDeleted /\ deleteReqs = 4
    /\ fsp.outcome = "Duplicate"
    /\ events = <<"fsp:cache", "fsp:fire", "channel:eval", "channel:fire",
                  "regex:eval", "regex:fire", "regex:fire">>
    /\ notices = <<>>
    /\ fsp.key \in DOMAIN Cache /\ Cache[fsp.key] = now - fsp.delta

\* C34 as stated: when a check has deleted the message and posting its notice
\* has failed, the handling of the message is over: no check is evaluated
\* and no deletion is requested after that
C34_NothingAfterFailedNotice ==
    \A i \in EventIdx({"notice:failed"}) : i = Len(events)

\* C35 as stated: once a forwarded message has been through every handler
\* and the channel-origin or the regex check has deleted it, its fingerprint
\* has not been written to the dedup cache of the chat
C35_DeletedForwardNotRecorded ==
    ( /\ pc = "done" /\ upd.fwd /\ msgDeleted
      /\ fsp.outcome # "Duplicate"
      /\ Range(events) \cap {"channel:fire", "regex:fire"} # {} )
    => /\ fsp.outcome \notin {"New", "Expired"}
       /\ MakeForwardKey(upd) # NoKey => MakeForwardKey(upd) \notin DOMAIN Cache

\* C36: a privileged command in a group whose administrator list was fetched
\* is executed exactly when the sender is on the list as it is at that call,
\* whatever the list was at earlier calls; a denied command changes no
\* setting, and a change of the list changes none either
C36_DecisionFromCurrentList ==
    [][/\ ( AtGuardedCommand /\ "gate:checked" \in Range(Appended) )
          => /\ "cmd:ok" \in Range(Appended) <=> upd.from_user \in admins[upd.chat]
             /\ "cmd:denied" \in Range(Appended) <=> upd.from_user \notin admins[upd.chat]
             /\ upd.from_user \notin admins[upd.chat] => chat_data' = chat_data
       /\ admins' # admins => chat_data' = chat_data]_vars

\* user 2, no administrator at the start, has switched the janitor on and
\* stored a pattern as an administrator, and is denied now that the list no
\* longer holds the user
C36_Witness ==
    /\ pc = "done" /\ upd.from_user = 2
    /\ admins[-1001] = {1}
    /\ chat_data[-1001].janitorEnabled
    /\ chat_data[-1001].filter_patterns = << <<"spam">> >>
    /\ events = <<"gate:checked", "cmd:denied">>

\* C37: a forward handled while forwardSpamProtectionEnabled is off leaves
\* the chat's settings and dedup cache as they are, stale entries included;
\* toggle_forward_spam leaves every dedup cache as it is; with protection on,
\* a fingerprint whose entry is at most 24h old at the check is a Duplicate,
\* whenever the entry was written, and a fingerprint without an entry is New
C37_DisabledPeriodKeepsCache ==
    [][/\ ( AtForwardSpam /\ ~Settings.forwardSpamProtectionEnabled )
          => /\ chat_data' = chat_data
             /\ fsp'.outcome = "disabled"
             /\ deleteReqs' = deleteReqs /\ msgDeleted' = msgDeleted
       /\ ( pc = "dispatch" /\ HandlerFor(grp, upd) = "toggle_forward_spam" )
          => \A c \in Chats : chat_data'[c].fsp_cache = chat_data[c].fsp_cache
       /\ ( /\ AtDedupCheck
            /\ MakeForwardKey(upd) \in DOMAIN Cache
            /\ now' - Cache[MakeForwardKey(upd)] <= FSP_WINDOW_HOURS )
          => fsp'.outcome = "Duplicate" /\ deleteReqs' = deleteReqs + 1
       /\ ( AtDedupCheck /\ MakeForwardKey(upd) \notin DOMAIN Cache )
          => fsp'.outcome = "New" /\ deleteReqs' = deleteReqs]_vars

\* protection is off, the cache holds an entry older than 24h for the
\* fingerprint of the forward that has just been handled, and the entry is
\* still there
C37_Witness ==
    /\ pc = "done" /\ fsp.outcome = "disabled"
    /\ ~Settings.forwardSpamProtectionEnabled
    /\ MakeForwardKey(upd) # NoKey
    /\ MakeForwardKey(upd) \in DOMAIN Cache
    /\ now - Cache[MakeForwardKey(upd)] > FSP_WINDOW_HOURS

\* C38 as stated: the fingerprint of a message is the same in every run of
\* the process, so that a restart changes the fingerprint of no message
C38_FingerprintStableAcrossRuns ==
    [][\A m \in RestartMessages : MakeForwardKey(m)' = MakeForwardKey(m)]_vars

\* the name a channel reference stands for
Named(ref) == IF Head(ref) = "@" THEN ref[2] ELSE ref[1]

\* the sender chat's username or its id as a string is on the whitelist
OnWhitelist ==
    \/ upd.sender_chat.username # "" /\ upd.sender_chat.username \in Range(Settings.channelWhitelist)
    \/ (IF upd.sender_chat.id = -1555 THEN "-1555" ELSE "") \in Range(Settings.channelWhitelist)

\* C39: the whitelist of a chat holds names without the marker, none of them
\* twice; a whitelist_channel that the gate lets through appends the name its
\* argument stands for unless the list holds it, with the marker or without;
\* an unwhitelist_channel takes that name out and leaves the rest in order,
\* so that the list before the name was appended is back; and the
\* channel-origin check fires on a post of an external channel exactly when
\* neither the channel's username nor its id as a string is on the list
C39_WhitelistNormalised ==
    /\ [](\A c \in Chats :
             /\ NoDuplicates(chat_data[c].channelWhitelist)
             /\ Range(chat_data[c].channelWhitelist) \subseteq {"news", "ads", "-1555"})
    /\ [][LET wl == Settings.channelWhitelist
              after == chat_data'[upd.chat].channelWhitelist
              name == Named(FirstArg(upd))
              Other(x) == x # name
          IN  /\ ( Granted("whitelist_channel") /\ FirstArg(upd) # <<>> )
                 => after = (IF name \in Range(wl) THEN wl ELSE Append(wl, name))
              /\ ( Granted("unwhitelist_channel") /\ FirstArg(upd) # <<>> )
                 => /\ after = SelectSeq(wl, Other)
                    /\ ( wl # <<>> /\ wl[Len(wl)] = name )
                       => after = SubSeq(wl, 1, Len(wl) - 1)
              /\ ( /\ AtFilterMessage
                   /\ Settings.channelFilterEnabled
                   /\ upd.sender_chat.type = "channel"
                   /\ upd.sender_chat.id # upd.chat )
                 => ("channel:fire" \in Range(Appended) <=> ~OnWhitelist)]_vars

\* the list holds news, and a whitelist_channel @news finds it there
C39_Witness ==
    /\ pc = "done"
    /\ upd.text = <<"/", "whitelist_channel", " ", "@", "news">>
    /\ Settings.channelWhitelist = <<"ads", "news">>
    /\ events = <<"gate:checked", "cmd:ok", "reply:exists">>

====
